---- MODULE Spec2Model ----
(***************************************************************************)
(* Model of the PickleRank core: the schedule generator                    *)
(* (app/domain/matchmaking), the rating engines (app/domain/ratings), the  *)
(* event lifecycle (EventService) and the replay (GroupService).           *)
(*                                                                         *)
(* Numbers.  The program computes in float64.  Here                        *)
(*   - ratings are integers in hundredths of a point (100000 is 1000.0),   *)
(*   - a team rating (the mean of two ratings) is kept as the SUM of the   *)
(*     two ratings, i.e. twice the mean, so that no half is lost,          *)
(*   - elo_diff, auto_relax_step and auto_relax_max_elo_diff are in        *)
(*     thousandths (50 is 0.05).                                           *)
(* The pseudo random generator of module `random` (a Mersenne twister) is  *)
(* modelled by a linear congruential generator with the same interface:    *)
(* a process-wide state, seed() that resets it from a string, and          *)
(* shuffle() that draws from it.                                           *)
(***************************************************************************)
EXTENDS Integers, Sequences, FiniteSets, Bags, TLC

Abs(x) == IF x < 0 THEN -x ELSE x
Max2(a, b) == IF a >= b THEN a ELSE b
Range(s) == {s[i] : i \in 1..Len(s)}

(***************************************************************************)
(* app/domain/matchmaking/constraints.py                                   *)
(***************************************************************************)

\* Game.all_players
all_players(g) == {g.team1[1], g.team1[2], g.team2[1], g.team2[2]}

\* Game.teammate_pairs
teammate_pairs(g) == {{g.team1[1], g.team1[2]}, {g.team2[1], g.team2[2]}}

\* Game.opponent_pairs
opponent_pairs(g) ==
    {{g.team1[1], g.team2[1]}, {g.team1[1], g.team2[2]},
     {g.team1[2], g.team2[1]}, {g.team1[2], g.team2[2]}}

\* variant: the in-event teammate rule is never applied
check_teammate_constraint_in_event_mut(config, new_pair, existing_pairs) == TRUE

\* ConstraintChecker.check_teammate_constraint_in_event
check_teammate_constraint_in_event(config, new_pair, existing_pairs) ==
    IF ~config.no_repeat_teammate_in_event THEN TRUE
    ELSE new_pair \notin existing_pairs

\* variant: the previous-event rule is never applied
check_teammate_constraint_from_previous_mut(config, previous_teammate_pairs, new_pair) == TRUE

\* ConstraintChecker.check_teammate_constraint_from_previous
check_teammate_constraint_from_previous(config, previous_teammate_pairs, new_pair) ==
    IF ~config.no_repeat_teammate_from_previous_event THEN TRUE
    ELSE new_pair \notin previous_teammate_pairs

\* dict.get(pair, 0) on an opponent-count dictionary (a function on the
\* pairs counted so far)
CountOf(counts, pair) == IF pair \in DOMAIN counts THEN counts[pair] ELSE 0

\* variant: the limit is compared with > instead of >=
check_opponent_constraint_mut(config, new_pairs, opponent_counts) ==
    IF ~config.no_repeat_opponent_in_event THEN TRUE
    ELSE \A pair \in new_pairs : ~(CountOf(opponent_counts, pair) > 2)

\* ConstraintChecker.check_opponent_constraint
check_opponent_constraint(config, new_pairs, opponent_counts) ==
    IF ~config.no_repeat_opponent_in_event THEN TRUE
    ELSE \A pair \in new_pairs : ~(CountOf(opponent_counts, pair) >= 2)

\* variant: the difference is divided by the sum of the two team ratings
\* instead of the larger one
check_rating_balance_mut(team1_rating, team2_rating, elo_diff) ==
    IF team1_rating + team2_rating = 0 THEN TRUE
    ELSE Abs(team1_rating - team2_rating) * 1000 <= elo_diff * (team1_rating + team2_rating)

\* variant: no two teams are within the tolerance
check_rating_balance_none(team1_rating, team2_rating, elo_diff) == FALSE

\* ConstraintChecker.check_rating_balance; both team ratings are passed as
\* twice the mean, which leaves the quotient unchanged
check_rating_balance(team1_rating, team2_rating, elo_diff) ==
    LET max_rating == Max2(team1_rating, team2_rating)
        num == Abs(team1_rating - team2_rating)
    IN  IF max_rating = 0 THEN TRUE
        ELSE IF max_rating > 0 THEN num * 1000 <= elo_diff * max_rating
        ELSE num * 1000 >= elo_diff * max_rating

(***************************************************************************)
(* module random: process-wide generator state                             *)
(***************************************************************************)

\* one step of the generator
RngNext(s) == (s * 75 + 74) % 65537

\* random.seed(f"{seed}_{relax_iterations}")
random_seed(seed, relax_iterations) ==
    (seed * 7919 + relax_iterations * 1031 + 12345) % 65537

\* one pass of the loop of random.shuffle(x):
\*   for i in reversed(range(1, len(x))): j = randbelow(i + 1); x[i], x[j] = x[j], x[i]
\* (st.i is the 1-based position i + 1)
ShuffleStep(st) ==
    IF st.i < 2 THEN st
    ELSE LET s2 == RngNext(st.rng)
             j == 1 + ((s2 \div 8) % st.i)
         IN  [seq |-> [st.seq EXCEPT ![st.i] = st.seq[j], ![j] = st.seq[st.i]],
              rng |-> s2, i |-> st.i - 1]

\* n passes of the loop, split in halves to keep the evaluation shallow (the
\* test on h makes the first half be evaluated before the second starts)
RECURSIVE ShuffleIter(_, _)
ShuffleIter(st, n) ==
    IF n <= 0 THEN st
    ELSE IF n = 1 THEN ShuffleStep(st)
    ELSE LET h == ShuffleIter(st, n \div 2)
         IN  IF h.i >= 0 THEN ShuffleIter(h, n - (n \div 2)) ELSE h

\* random.shuffle(x) on generator state s: the shuffled list and the state left
random_shuffle(x, s) == ShuffleIter([seq |-> x, rng |-> s, i |-> Len(x)], Len(x) - 1)

(***************************************************************************)
(* app/domain/matchmaking/generator.py                                     *)
(***************************************************************************)

\* ScheduleGenerator.MAX_ROUND_ATTEMPTS
MAX_ROUND_ATTEMPTS == 100

\* self.players = {p.id: p for p in players}; list(self.players.values()):
\* one entry per id, in order of first insertion, holding the last rating
player_list(players) ==
    LET firsts == SelectSeq([i \in 1..Len(players) |-> i],
                            LAMBDA i : \A j \in 1..(i - 1) : players[j].id # players[i].id)
        last(id) == CHOOSE i \in 1..Len(players) :
                        /\ players[i].id = id
                        /\ \A j \in (i + 1)..Len(players) : players[j].id # id
    IN  [k \in 1..Len(firsts) |-> players[last(players[firsts[k]].id)]]

\* itertools.combinations(player_list, 2), in its lexicographic order
combinations2(plist) ==
    LET n == Len(plist)
        idx == SelectSeq([k \in 1..(n * n) |-> <<((k - 1) \div n) + 1, ((k - 1) % n) + 1>>],
                         LAMBDA ij : ij[1] < ij[2])
    IN  [k \in 1..Len(idx) |-> <<plist[idx[k][1]], plist[idx[k][2]]>>]

\* ScheduleGenerator._generate_all_valid_matches
_generate_all_valid_matches(players, elo_diff) ==
    LET pairs == combinations2(player_list(players))
        n == Len(pairs)
        cross == [k \in 1..(n * n) |-> <<pairs[((k - 1) \div n) + 1], pairs[((k - 1) % n) + 1]>>]
        keep(m) ==
            LET team1 == m[1]
                team2 == m[2]
            IN  /\ {team1[1].id, team1[2].id} \cap {team2[1].id, team2[2].id} = {}
                /\ check_rating_balance(team1[1].rating + team1[2].rating,
                                        team2[1].rating + team2[2].rating, elo_diff)
        kept == SelectSeq(cross, keep)
    IN  [k \in 1..Len(kept) |->
            << <<kept[k][1][1].id, kept[k][1][2].id>>, <<kept[k][2][1].id, kept[k][2][2].id>> >>]

\* ScheduleGenerator._check_hard_constraints
_check_hard_constraints(config, previous_teammate_pairs, game, event_teammate_pairs, opponent_counts) ==
    /\ \A pair \in teammate_pairs(game) :
          /\ check_teammate_constraint_in_event(config, pair, event_teammate_pairs)
          /\ check_teammate_constraint_from_previous(config, previous_teammate_pairs, pair)
    /\ check_opponent_constraint(config, opponent_pairs(game), opponent_counts)

\* counts[pair] = counts.get(pair, 0) + 1 for every pair of the set
BumpCounts(counts, pairs) ==
    [p \in (DOMAIN counts) \cup pairs |->
        CountOf(counts, p) + (IF p \in pairs THEN 1 ELSE 0)]

\* combined_opponent_counts = {**event_counts}; += round counts
MergeCounts(a, b) ==
    [p \in (DOMAIN a) \cup (DOMAIN b) |-> CountOf(a, p) + CountOf(b, p)]

EmptyCounts == [p \in {} |-> 0]

\* variant: the test is dropped
players_already_used_mut(match_players, used_players) == FALSE

\* "if match_players & used_players: continue"
players_already_used(match_players, used_players) == match_players \cap used_players # {}

\* one pass of "for match in shuffled_matches" in _select_round_matches;
\* w.done is the return taken when len(selected) == self.courts
WalkStep(config, prev, courts, round_idx, ms, ev, w) ==
    IF w.done \/ w.k > Len(ms) THEN w
    ELSE
      LET team1 == ms[w.k][1]
          team2 == ms[w.k][2]
          match_players == {team1[1], team1[2], team2[1], team2[2]}
          game == [round_index |-> round_idx, court_index |-> Len(w.selected),
                   team1 |-> team1, team2 |-> team2]
          combined_teammate_pairs == ev.teammate_pairs \cup w.round_teammate_pairs
          combined_opponent_counts == MergeCounts(ev.opponent_counts, w.round_opponent_counts)
      IN  IF players_already_used(match_players, w.used_players)
            THEN [w EXCEPT !.k = w.k + 1]
          ELSE IF ~_check_hard_constraints(config, prev, game, combined_teammate_pairs,
                                           combined_opponent_counts)
            THEN [w EXCEPT !.k = w.k + 1]
          ELSE [k |-> w.k + 1,
                selected |-> Append(w.selected, game),
                used_players |-> w.used_players \cup match_players,
                round_teammate_pairs |-> w.round_teammate_pairs \cup teammate_pairs(game),
                round_opponent_counts |-> BumpCounts(w.round_opponent_counts, opponent_pairs(game)),
                done |-> (Len(w.selected) + 1 = courts)]

RECURSIVE WalkIter(_, _, _, _, _, _, _, _)
WalkIter(config, prev, courts, round_idx, ms, ev, w, n) ==
    IF n <= 0 THEN w
    ELSE IF n = 1 THEN WalkStep(config, prev, courts, round_idx, ms, ev, w)
    ELSE LET h == WalkIter(config, prev, courts, round_idx, ms, ev, w, n \div 2)
         IN  IF h.k >= 0 THEN WalkIter(config, prev, courts, round_idx, ms, ev, h, n - (n \div 2))
             ELSE h

\* one pass of "for _ in range(self.MAX_ROUND_ATTEMPTS)": shuffle a copy of the
\* pool, walk it, return when all courts are filled
AttemptStep(config, prev, courts, round_idx, valid_matches, ev, a) ==
    IF a.found THEN a
    ELSE
      LET sh == random_shuffle(valid_matches, a.rng)
          w == WalkIter(config, prev, courts, round_idx, sh.seq, ev,
                        [k |-> 1, selected |-> <<>>, used_players |-> {},
                         round_teammate_pairs |-> {}, round_opponent_counts |-> EmptyCounts,
                         done |-> FALSE],
                        Len(sh.seq))
      IN  IF w.done THEN [found |-> TRUE, games |-> w.selected, rng |-> sh.rng]
          ELSE [found |-> FALSE, games |-> <<>>, rng |-> sh.rng]

RECURSIVE AttemptIter(_, _, _, _, _, _, _, _)
AttemptIter(config, prev, courts, round_idx, valid_matches, ev, a, n) ==
    IF n <= 0 THEN a
    ELSE IF n = 1 THEN AttemptStep(config, prev, courts, round_idx, valid_matches, ev, a)
    ELSE LET h == AttemptIter(config, prev, courts, round_idx, valid_matches, ev, a, n \div 2)
         IN  IF h.rng >= 0
               THEN AttemptIter(config, prev, courts, round_idx, valid_matches, ev, h, n - (n \div 2))
             ELSE h

\* ScheduleGenerator._select_round_matches: up to MAX_ROUND_ATTEMPTS shuffles;
\* found = FALSE is the None result.  rng is the generator state left behind.
_select_round_matches(config, prev, courts, round_idx, valid_matches, ev, rng) ==
    AttemptIter(config, prev, courts, round_idx, valid_matches, ev,
                [found |-> FALSE, games |-> <<>>, rng |-> rng], MAX_ROUND_ATTEMPTS)

\* the round loop of _try_generate
RECURSIVE TryRounds(_, _, _, _, _, _, _, _, _)
TryRounds(config, prev, courts, rounds, valid_matches, round_idx, all_games, ev, rng) ==
    IF round_idx >= rounds
      THEN [games |-> all_games, success |-> TRUE, failure_reason |-> "none", rng |-> rng]
    ELSE
      LET r == _select_round_matches(config, prev, courts, round_idx, valid_matches, ev, rng)
          tm == UNION {teammate_pairs(r.games[i]) : i \in 1..Len(r.games)}
          RECURSIVE bump(_, _)
          bump(c, i) == IF i > Len(r.games) THEN c
                        ELSE bump(BumpCounts(c, opponent_pairs(r.games[i])), i + 1)
      IN  IF ~r.found
            THEN [games |-> <<>>, success |-> FALSE, failure_reason |-> "hard_constraints",
                  rng |-> r.rng]
          ELSE TryRounds(config, prev, courts, rounds, valid_matches, round_idx + 1,
                         all_games \o r.games,
                         [teammate_pairs |-> ev.teammate_pairs \cup tm,
                          opponent_counts |-> bump(ev.opponent_counts, 1)],
                         r.rng)

\* ScheduleGenerator._try_generate
_try_generate(players, courts, rounds, config, prev, elo_diff, rng) ==
    LET valid_matches == _generate_all_valid_matches(players, elo_diff)
    IN  IF Len(valid_matches) = 0
          THEN [games |-> <<>>, success |-> FALSE, failure_reason |-> "rating", rng |-> rng]
        ELSE TryRounds(config, prev, courts, rounds, valid_matches, 0, <<>>,
                       [teammate_pairs |-> {}, opponent_counts |-> EmptyCounts], rng)

\* variant: the generator is not reseeded, the state left by earlier calls
\* is used
reseed_mut(rng, seed, relax_iterations) == rng

\* random.seed(f"{self.seed}_{relax_iterations}") at the head of every relax
\* iteration: the process-wide state is replaced, whatever it was
reseed(rng, seed, relax_iterations) == random_seed(seed, relax_iterations)

\* variant: the metadata records the configured tolerance as the one used
Metadata_mut(config, seed, current_elo_diff, relax_iterations, attempts) ==
    [seed_used |-> seed,
     elo_diff_configured |-> config.elo_diff,
     elo_diff_used |-> config.elo_diff,
     relax_iterations |-> relax_iterations,
     attempts |-> attempts,
     constraint_toggles |->
        [no_repeat_teammate_in_event |-> config.no_repeat_teammate_in_event,
         no_repeat_teammate_from_previous_event |-> config.no_repeat_teammate_from_previous_event,
         no_repeat_opponent_in_event |-> config.no_repeat_opponent_in_event]]

\* the metadata dictionary of a GenerationResult (duration_ms, a wall-clock
\* reading, is left out)
Metadata(config, seed, current_elo_diff, relax_iterations, attempts) ==
    [seed_used |-> seed,
     elo_diff_configured |-> config.elo_diff,
     elo_diff_used |-> current_elo_diff,
     relax_iterations |-> relax_iterations,
     attempts |-> attempts,
     constraint_toggles |->
        [no_repeat_teammate_in_event |-> config.no_repeat_teammate_in_event,
         no_repeat_teammate_from_previous_event |-> config.no_repeat_teammate_from_previous_event,
         no_repeat_opponent_in_event |-> config.no_repeat_opponent_in_event]]

\* variant: the tolerance is relaxed after every failure
relaxes_mut(config, failure_reason) == config.auto_relax_elo_diff

\* variant: the tolerance is never relaxed
relaxes_never(config, failure_reason) == FALSE

\* "if self.config.auto_relax_elo_diff and failure_reason == 'rating'"
relaxes(config, failure_reason) ==
    config.auto_relax_elo_diff /\ failure_reason = "rating"

\* one pass of the while-loop of ScheduleGenerator.generate: the result it
\* returns (done), or the locals the next pass starts with
GenerateStep(players, courts, rounds, config, prev, seed, relax_iterations, current_elo_diff, attempts, rng) ==
    LET t == _try_generate(players, courts, rounds, config, prev, current_elo_diff,
                           reseed(rng, seed, relax_iterations))
        attempts1 == attempts + 1
        elo2 == current_elo_diff + config.auto_relax_step
        relax2 == relax_iterations + 1
    IN  IF t.success
          THEN [done |-> TRUE,
                result |-> [raised |-> FALSE, success |-> TRUE, games |-> t.games,
                            metadata |-> Metadata(config, seed, current_elo_diff,
                                                  relax_iterations, attempts1),
                            error_message |-> "none", rng |-> t.rng]]
        ELSE IF relaxes(config, t.failure_reason)
          THEN IF elo2 > config.auto_relax_max_elo_diff
                 THEN [done |-> TRUE,
                       result |-> [raised |-> FALSE, success |-> FALSE, games |-> <<>>,
                                   metadata |-> Metadata(config, seed, elo2, relax2, attempts1),
                                   error_message |-> "max_elo_diff_exceeded", rng |-> t.rng]]
               ELSE [done |-> FALSE, relax_iterations |-> relax2,
                     current_elo_diff |-> elo2, attempts |-> attempts1, rng |-> t.rng]
        ELSE [done |-> TRUE,
              result |-> [raised |-> FALSE, success |-> FALSE, games |-> <<>>,
                          metadata |-> Metadata(config, seed, current_elo_diff,
                                                relax_iterations, attempts1),
                          error_message |->
                             IF t.failure_reason = "hard_constraints" THEN "hard_constraints"
                             ELSE IF t.failure_reason = "rating" /\ ~config.auto_relax_elo_diff
                                    THEN "rating_constraints"
                             ELSE "current_constraints",
                          rng |-> t.rng]]

\* the while-loop of ScheduleGenerator.generate
RECURSIVE GenerateLoop(_, _, _, _, _, _, _, _, _, _)
GenerateLoop(players, courts, rounds, config, prev, seed, relax_iterations, current_elo_diff, attempts, rng) ==
    LET again(s) ==
            IF s.done THEN s.result
            ELSE GenerateLoop(players, courts, rounds, config, prev, seed,
                              s.relax_iterations, s.current_elo_diff, s.attempts, s.rng)
    IN  CHOOSE res \in {again(s) : s \in {GenerateStep(players, courts, rounds, config, prev,
                                                       seed, relax_iterations,
                                                       current_elo_diff, attempts, rng)}} : TRUE

\* variant: the constructor accepts any number of players
wrong_player_count_mut(players, courts) == FALSE

\* "if len(players) != courts * 4: raise ValueError"
wrong_player_count(players, courts) == Len(players) # courts * 4

\* ScheduleGenerator(players, courts, rounds, config, previous_teammate_pairs,
\* seed).generate(): the constructor's size check, then the relax loop.
\* seed is the seed in use (the caller's, or the one _generate_seed drew).
generate(players, courts, rounds, config, prev, seed, rng) ==
    IF wrong_player_count(players, courts)
      THEN [raised |-> TRUE, success |-> FALSE, games |-> <<>>,
            metadata |-> Metadata(config, seed, config.elo_diff, 0, 0),
            error_message |-> "ValueError", rng |-> rng]
    ELSE GenerateLoop(players, courts, rounds, config, prev, seed, 0, config.elo_diff, 0, rng)

\* self.seed = seed or self._generate_seed(): a missing (or empty) seed is
\* replaced by one derived from the clock, which can be any seed
NoSeed == 0
NumSeeds == 2
Seeds == 1..NumSeeds
SeedChoices(seed) == IF seed = NoSeed THEN Seeds ELSE {seed}

(***************************************************************************)
(* app/domain/ratings: the rating engines                                  *)
(*                                                                         *)
(* A game for rating is [team1, team2, result, score_team1, score_team2],  *)
(* a team a pair of [player_id, rating].  Scores are numbers, None the     *)
(* null score.  Expected scores are in percent (50 is 0.5), so that        *)
(* k * (actual - expected) is a rating change in hundredths of a point.    *)
(* elo_const is in thousandths (400000 is 400.0, 300 is 0.3).              *)
(***************************************************************************)

None == -1

\* integer quotient rounded toward zero
TruncDiv(n, d) ==
    IF d = 0 THEN 0
    ELSE IF (n >= 0) = (d > 0) THEN Abs(n) \div Abs(d) ELSE -(Abs(n) \div Abs(d))

\* 1 / (1 + 10 ** x), x in thousandths, in percent: the value at the nearest
\* tabulated exponent (0, 1/16, 1/8, 3/16, 1/4, 3/8, 1/2, 3/4, 1, beyond)
ExpectedPct(xm) ==
    LET a == Abs(xm)
        e == IF a < 31 THEN 50
             ELSE IF a < 94 THEN 46
             ELSE IF a < 156 THEN 43
             ELSE IF a < 219 THEN 39
             ELSE IF a < 313 THEN 36
             ELSE IF a < 438 THEN 30
             ELSE IF a < 625 THEN 24
             ELSE IF a < 875 THEN 15
             ELSE IF a < 1125 THEN 9
             ELSE 3
    IN  IF xm >= 0 THEN e ELSE 100 - e

\* RatingSystem._get_team_average, as twice the mean
_get_team_average(p1, p2) == p1.rating + p2.rating

\* RatingSystem._get_expected_score on two team ratings (twice the means)
_get_expected_score(elo_const, rating_a, rating_b) ==
    ExpectedPct(TruncDiv((rating_b - rating_a) * 5000, elo_const))

\* RatingSystem._get_actual_score, in percent
_get_actual_score(result, is_team1) ==
    IF result = "UNSET" THEN 50
    ELSE IF result = "TIE" THEN 50
    ELSE IF result = "TEAM1_WIN" THEN (IF is_team1 THEN 100 ELSE 0)
    ELSE (IF is_team1 THEN 0 ELSE 100)

GamePlayers(game) == <<game.team1[1], game.team1[2], game.team2[1], game.team2[2]>>
GamePlayerIds(game) == {GamePlayers(game)[i].player_id : i \in 1..4}

\* player_deltas[pid] += d for the players of a team (a player listed twice
\* receives it twice)
AddToTeam(player_deltas, team, d) ==
    [pid \in DOMAIN player_deltas |->
        player_deltas[pid] + (IF team[1].player_id = pid THEN d ELSE 0)
                           + (IF team[2].player_id = pid THEN d ELSE 0)]

\* "if p.player_id not in player_info: ... player_deltas[p.player_id] = 0.0"
WithPlayers(player_deltas, game) ==
    [pid \in (DOMAIN player_deltas) \cup GamePlayerIds(game) |->
        IF pid \in DOMAIN player_deltas THEN player_deltas[pid] ELSE 0]

\* player_info[pid].rating: the rating carried by the first appearance of pid
\* in the batch (games for which counted(g) holds)
FirstRating(games, pid, counted(_)) ==
    LET gi == CHOOSE i \in 1..Len(games) :
                  /\ counted(games[i]) /\ pid \in GamePlayerIds(games[i])
                  /\ \A j \in 1..(i - 1) :
                        ~(counted(games[j]) /\ pid \in GamePlayerIds(games[j]))
        k == CHOOSE k \in 1..4 :
                  /\ GamePlayers(games[gi])[k].player_id = pid
                  /\ \A m \in 1..(k - 1) : GamePlayers(games[gi])[m].player_id # pid
    IN  GamePlayers(games[gi])[k].rating

\* current_ratings.get(player_id, player_info[player_id].rating)
RatingBefore(games, current_ratings, pid, counted(_)) ==
    IF pid \in DOMAIN current_ratings THEN current_ratings[pid]
    ELSE FirstRating(games, pid, counted)

\* "Build result": one RatingDelta per player of player_deltas
BuildResult(games, current_ratings, player_deltas, counted(_)) ==
    [pid \in DOMAIN player_deltas |->
        LET rating_before == RatingBefore(games, current_ratings, pid, counted)
        IN  [rating_before |-> rating_before,
             rating_after |-> rating_before + player_deltas[pid],
             delta |-> player_deltas[pid]]]

IsScored(game) == game.result # "UNSET"
AnyGame(game) == TRUE

\* variant: team 2 receives half of the opposite delta
serious_delta_team2_mut(delta_team1) == -TruncDiv(delta_team1, 2)

\* "delta_team2 = -delta_team1"
serious_delta_team2(delta_team1) == -delta_team1

\* SeriousEloRating.calculate_deltas: the loop over the games
RECURSIVE SeriousLoop(_, _, _, _, _)
SeriousLoop(k_factor, elo_const, games, i, player_deltas) ==
    IF i > Len(games) THEN player_deltas
    ELSE IF games[i].result = "UNSET"
      THEN SeriousLoop(k_factor, elo_const, games, i + 1, player_deltas)
    ELSE
      LET game == games[i]
          team1_rating == _get_team_average(game.team1[1], game.team1[2])
          team2_rating == _get_team_average(game.team2[1], game.team2[2])
          expected_team1 == _get_expected_score(elo_const, team1_rating, team2_rating)
          actual_team1 == _get_actual_score(game.result, TRUE)
          delta_team1 == k_factor * (actual_team1 - expected_team1)
          delta_team2 == serious_delta_team2(delta_team1)
      IN  SeriousLoop(k_factor, elo_const, games, i + 1,
                      AddToTeam(AddToTeam(WithPlayers(player_deltas, game),
                                          game.team1, delta_team1),
                                game.team2, delta_team2))

\* SeriousEloRating.calculate_deltas
SeriousEloRating_calculate_deltas(k_factor, elo_const, games, current_ratings) ==
    BuildResult(games, current_ratings,
                SeriousLoop(k_factor, elo_const, games, 1, [pid \in {} |-> 0]), IsScored)

\* RacsEloRating._calc_expected(player_rating, opponent_team_avg), the
\* opponents' rating given as twice the mean
_calc_expected(elo_const, player_rating, opponent_team_avg) ==
    IF player_rating = 0 THEN 50
    ELSE ExpectedPct(TruncDiv((2 * player_rating - opponent_team_avg) * 5000,
                              TruncDiv(player_rating * elo_const, 100)))

\* player_deltas[pid] += d for one player
AddToPlayer(player_deltas, player_id, d) ==
    [pid \in DOMAIN player_deltas |->
        player_deltas[pid] + (IF pid = player_id THEN d ELSE 0)]

\* variant: a tie is rated like a win of team 2
racs_result_decided_mut(result) == TRUE

\* "if game.result == GameResult.TEAM1_WIN ... elif game.result ==
\* GameResult.TEAM2_WIN ... else: pass": only a win changes ratings
racs_result_decided(result) == result \in {"TEAM1_WIN", "TEAM2_WIN"}

\* RacsEloRating.calculate_deltas: the loop over the games
RECURSIVE RacsLoop(_, _, _, _, _)
RacsLoop(k_factor, elo_const, games, i, player_deltas) ==
    IF i > Len(games) THEN player_deltas
    ELSE IF games[i].result = "UNSET"
      THEN RacsLoop(k_factor, elo_const, games, i + 1, player_deltas)
    ELSE
      LET game == games[i]
          p1 == game.team1[1]
          p2 == game.team1[2]
          p3 == game.team2[1]
          p4 == game.team2[2]
          team1_avg == _get_team_average(p1, p2)
          team2_avg == _get_team_average(p3, p4)
          E1 == _calc_expected(elo_const, p1.rating, team2_avg)
          E2 == _calc_expected(elo_const, p2.rating, team2_avg)
          E3 == _calc_expected(elo_const, p3.rating, team1_avg)
          E4 == _calc_expected(elo_const, p4.rating, team1_avg)
          k_const == IF game.score_team1 # None /\ game.score_team2 # None
                     THEN 10 * Abs(game.score_team1 - game.score_team2)
                     ELSE k_factor
          d0 == WithPlayers(player_deltas, game)
          w1 == IF game.result = "TEAM1_WIN" THEN 0 ELSE -100
          w2 == IF game.result = "TEAM1_WIN" THEN -100 ELSE 0
          d4 == IF racs_result_decided(game.result)
                THEN AddToPlayer(AddToPlayer(AddToPlayer(AddToPlayer(d0,
                         p1.player_id, k_const * (w1 + E1)),
                         p2.player_id, k_const * (w1 + E2)),
                         p3.player_id, k_const * (w2 + E3)),
                         p4.player_id, k_const * (w2 + E4))
                ELSE d0
      IN  RacsLoop(k_factor, elo_const, games, i + 1, d4)

\* RacsEloRating.calculate_deltas
RacsEloRating_calculate_deltas(k_factor, elo_const, games, current_ratings) ==
    BuildResult(games, current_ratings,
                RacsLoop(k_factor, elo_const, games, 1, [pid \in {} |-> 0]), IsScored)

\* sorted(ratings)[k - 1] for the ratings of the players in ids
SortedRating(rating_of, ids, k) ==
    CHOOSE v \in {rating_of[pid] : pid \in ids} :
        /\ Cardinality({pid \in ids : rating_of[pid] < v}) < k
        /\ Cardinality({pid \in ids : rating_of[pid] <= v}) >= k

\* the median of the batch, as twice its value
MedianRating(rating_of, batch_players) ==
    LET n == Cardinality(batch_players)
    IN  IF n = 0 THEN 200000
        ELSE IF n % 2 = 0
          THEN SortedRating(rating_of, batch_players, n \div 2)
               + SortedRating(rating_of, batch_players, (n \div 2) + 1)
        ELSE 2 * SortedRating(rating_of, batch_players, (n \div 2) + 1)

\* variant: the distance from the median is not clamped
_adjust_delta_mut(base_delta, player_rating, median_rating) ==
    IF median_rating = 0 THEN base_delta
    ELSE
      LET a == Abs(TruncDiv((2 * player_rating - median_rating) * 1000, median_rating))
      IN  IF base_delta > 0
          THEN IF 2 * player_rating < median_rating
               THEN TruncDiv(base_delta * (1000 + a), 1000)
               ELSE TruncDiv(base_delta * (10000 - 6 * a), 10000)
          ELSE IF 2 * player_rating > median_rating
               THEN TruncDiv(base_delta * (10000 + 4 * a), 10000)
               ELSE base_delta

\* CatchUpEloRating._adjust_delta, median_rating as twice the median;
\* distance_ratio in thousandths, clamped to [-0.5, 0.5]
_adjust_delta(base_delta, player_rating, median_rating) ==
    IF median_rating = 0 THEN base_delta
    ELSE
      LET raw == TruncDiv((2 * player_rating - median_rating) * 1000, median_rating)
          distance_ratio == IF raw > 500 THEN 500 ELSE IF raw < -500 THEN -500 ELSE raw
          a == Abs(distance_ratio)
      IN  IF base_delta > 0
          THEN IF 2 * player_rating < median_rating
               THEN TruncDiv(base_delta * (1000 + a), 1000)
               ELSE TruncDiv(base_delta * (10000 - 6 * a), 10000)
          ELSE IF 2 * player_rating > median_rating
               THEN TruncDiv(base_delta * (10000 + 4 * a), 10000)
               ELSE base_delta

\* current_ratings.get(p.player_id, p.rating)
CurrentOr(current_ratings, p) ==
    IF p.player_id \in DOMAIN current_ratings THEN current_ratings[p.player_id]
    ELSE p.rating

\* CatchUpEloRating.calculate_deltas: the second loop over the games
RECURSIVE CatchUpLoop(_, _, _, _, _, _, _)
CatchUpLoop(k_factor, elo_const, games, current_ratings, median_rating, i, player_deltas) ==
    IF i > Len(games) THEN player_deltas
    ELSE IF games[i].result = "UNSET"
      THEN CatchUpLoop(k_factor, elo_const, games, current_ratings, median_rating,
                       i + 1, player_deltas)
    ELSE
      LET game == games[i]
          team1_rating == _get_team_average(game.team1[1], game.team1[2])
          team2_rating == _get_team_average(game.team2[1], game.team2[2])
          expected_team1 == _get_expected_score(elo_const, team1_rating, team2_rating)
          actual_team1 == _get_actual_score(game.result, TRUE)
          base_delta_team1 == k_factor * (actual_team1 - expected_team1)
          adj(p, base) == _adjust_delta(base, CurrentOr(current_ratings, p), median_rating)
          d4 == AddToPlayer(AddToPlayer(AddToPlayer(AddToPlayer(player_deltas,
                    game.team1[1].player_id, adj(game.team1[1], base_delta_team1)),
                    game.team1[2].player_id, adj(game.team1[2], base_delta_team1)),
                    game.team2[1].player_id, adj(game.team2[1], -base_delta_team1)),
                    game.team2[2].player_id, adj(game.team2[2], -base_delta_team1))
      IN  CatchUpLoop(k_factor, elo_const, games, current_ratings, median_rating,
                      i + 1, d4)

\* CatchUpEloRating.calculate_deltas: the first pass registers the players of
\* every game of the batch, scored or not
CatchUpEloRating_calculate_deltas(k_factor, elo_const, games, current_ratings) ==
    LET batch_players == UNION {GamePlayerIds(games[i]) : i \in 1..Len(games)}
        rating_of == [pid \in batch_players |->
                         RatingBefore(games, current_ratings, pid, AnyGame)]
        median_rating == MedianRating(rating_of, batch_players)
    IN  BuildResult(games, current_ratings,
                    CatchUpLoop(k_factor, elo_const, games, current_ratings,
                                median_rating, 1, [pid \in batch_players |-> 0]),
                    AnyGame)

\* create_rating_system(system_type, k_factor, elo_const).calculate_deltas;
\* elo_const None selects the engine's default
calculate_deltas(system_type, k_factor, elo_const, games, current_ratings) ==
    IF system_type = "CATCH_UP"
    THEN CatchUpEloRating_calculate_deltas(k_factor,
             IF elo_const = None \/ elo_const = 0 THEN 400000 ELSE elo_const, games, current_ratings)
    ELSE IF system_type = "RACS_ELO"
    THEN RacsEloRating_calculate_deltas(k_factor,
             IF elo_const = None \/ elo_const = 0 THEN 300 ELSE elo_const, games, current_ratings)
    ELSE SeriousEloRating_calculate_deltas(k_factor,
             IF elo_const = None \/ elo_const = 0 THEN 400000 ELSE elo_const, games, current_ratings)

(***************************************************************************)
(* The database of one group and the services over it.  A handler is an    *)
(* operator from the database and its request to [db, error], error being  *)
(* "none" or the exception raised.  Event ids are serial numbers, which    *)
(* also order the events by created_at; a game id is <<event id, position  *)
(* in the event's game list (round_index, court_index order)>>.            *)
(*   db.settings       the group's settings                                *)
(*   db.group_players  id -> [rating, games_played, wins, losses, ties,    *)
(*                            membership_type, skill_level]                *)
(*   db.events         id -> [status, starts_at, created_at, courts,       *)
(*                            rounds, participants, generation_meta]       *)
(*   db.games          event id -> list of game rows                       *)
(*   db.rating_updates bag of rating-update rows                           *)
(***************************************************************************)

\* GroupSettings: the defaults, with the rating system and elo_diff given
Settings(ratingSystem, eloDiff) ==
    [ratingSystem |-> ratingSystem, kFactor |-> 32, eloConst |-> None,
     initialRating |-> 100000,
     noRepeatTeammateInEvent |-> TRUE,
     noRepeatTeammateFromPreviousEvent |-> TRUE,
     noRepeatOpponentInEvent |-> TRUE,
     eloDiff |-> eloDiff, autoRelaxEloDiff |-> TRUE,
     autoRelaxStep |-> 10, autoRelaxMaxEloDiff |-> 250]

\* int(100 * (base_rating / 1000)) rating points
SkillOffset(base_rating) == (base_rating \div 1000) * 100

\* GroupPlayerService.add_player_to_group: the rating a player joins with
JoinRating(settings, membership_type, skill_level) ==
    LET base_rating == settings.initialRating
    IN  IF membership_type = "SUB" /\ skill_level # "NONE"
        THEN IF skill_level = "ADVANCED" THEN base_rating + SkillOffset(base_rating)
             ELSE IF skill_level = "BEGINNER" THEN base_rating - SkillOffset(base_rating)
             ELSE base_rating
        ELSE base_rating

\* the group_players row of a player who has just joined
NewGroupPlayer(settings, membership_type, skill_level) ==
    [rating |-> JoinRating(settings, membership_type, skill_level),
     games_played |-> 0, wins |-> 0, losses |-> 0, ties |-> 0,
     membership_type |-> membership_type, skill_level |-> skill_level]

\* the first occurrences of a list: INSERT ... ON CONFLICT DO NOTHING
Dedup(ids) ==
    SelectSeq([i \in 1..Len(ids) |->
                  IF \E j \in 1..(i - 1) : ids[j] = ids[i] THEN None ELSE ids[i]],
              LAMBDA x : x # None)

WithEvent(events, id, event) ==
    [e \in (DOMAIN events) \cup {id} |-> IF e = id THEN event ELSE events[e]]

WithoutEvent(events, id) == [e \in (DOMAIN events) \ {id} |-> events[e]]

Failed(db, error) == [db |-> db, error |-> error]
Done(db) == [db |-> db, error |-> "none"]

\* EventService.create_event
create_event(db, participant_ids, courts, rounds, starts_at) ==
    IF Len(participant_ids) # courts * 4 THEN Failed(db, "BadRequest")
    ELSE IF \E i \in 1..Len(participant_ids) : participant_ids[i] \notin DOMAIN db.group_players
      THEN Failed(db, "BadRequest")
    ELSE
      LET id == db.next_event_id
          event == [status |-> "DRAFT", starts_at |-> starts_at, created_at |-> id,
                    courts |-> courts, rounds |-> rounds,
                    participants |-> Dedup(participant_ids),
                    generation_meta |-> <<>>]
      IN  Done([db EXCEPT !.events = WithEvent(@, id, event),
                          !.games = WithEvent(@, id, <<>>),
                          !.next_event_id = id + 1])

\* EventsRepository.get_previous_event: the latest COMPLETED event other than
\* the current one (starts_at DESC, created_at DESC), as a set of at most one id
get_previous_event(db, current_event_id) ==
    LET cands == {e \in DOMAIN db.events :
                     db.events[e].status = "COMPLETED" /\ e # current_event_id}
        later(a, b) == \/ db.events[a].starts_at > db.events[b].starts_at
                       \/ /\ db.events[a].starts_at = db.events[b].starts_at
                          /\ db.events[a].created_at > db.events[b].created_at
    IN  {e \in cands : \A o \in cands \ {e} : later(e, o)}

RowTeam1(row) == <<row.team1_p1, row.team1_p2>>
RowTeam2(row) == <<row.team2_p1, row.team2_p2>>
RowPlayers(row) == {row.team1_p1, row.team1_p2, row.team2_p1, row.team2_p2}

\* GamesRepository.get_teammate_pairs_from_event
get_teammate_pairs_from_event(db, event_id) ==
    UNION {{{db.games[event_id][i].team1_p1, db.games[event_id][i].team1_p2},
            {db.games[event_id][i].team2_p1, db.games[event_id][i].team2_p2}} :
           i \in 1..Len(db.games[event_id])}

\* str(event_id): the seed of a generation that does not ask for a new seed;
\* no clock-derived seed equals it
EventSeed(event_id) == NumSeeds + event_id

\* EventsRepository.get_participants, joined with the current ratings
get_participants(db, event_id) ==
    [i \in 1..Len(db.events[event_id].participants) |->
        [id |-> db.events[event_id].participants[i],
         rating |-> db.group_players[db.events[event_id].participants[i]].rating]]

\* the games row created from a generated game; team Elo is kept as the sum
\* of the two ratings (twice the mean)
NewGameRow(g, player_ratings) ==
    [round_index |-> g.round_index, court_index |-> g.court_index,
     team1_p1 |-> g.team1[1], team1_p2 |-> g.team1[2],
     team2_p1 |-> g.team2[1], team2_p2 |-> g.team2[2],
     score_team1 |-> None, score_team2 |-> None, result |-> "UNSET",
     swapped |-> FALSE,
     team1_elo |-> player_ratings[g.team1[1]] + player_ratings[g.team1[2]],
     team2_elo |-> player_ratings[g.team2[1]] + player_ratings[g.team2[2]]]

\* variant: a completed event may be regenerated
generate_schedule_guard_mut(event) == FALSE

\* "if event['status'] == 'COMPLETED': raise BadRequestError"
generate_schedule_guard(event) == event.status = "COMPLETED"

\* variant: the new games are added to the stored ones
generate_schedule_store_mut(db, event_id, player_ratings, result) ==
    IF result.raised THEN [db |-> db, error |-> "ValueError", rng |-> result.rng]
    ELSE IF ~result.success
      THEN [db |-> db, error |-> "MatchmakingError", rng |-> result.rng]
    ELSE [db |-> [db EXCEPT
                    !.games[event_id] =
                        @ \o [i \in 1..Len(result.games) |->
                                 NewGameRow(result.games[i], player_ratings)],
                    !.events[event_id].status = "GENERATED",
                    !.events[event_id].generation_meta = <<result.metadata>>],
          error |-> "none", rng |-> result.rng]

\* EventService.generate_schedule after the generator returned: the failure
\* paths, and the games, metadata and status written on success
generate_schedule_store(db, event_id, player_ratings, result) ==
    IF result.raised THEN [db |-> db, error |-> "ValueError", rng |-> result.rng]
    ELSE IF ~result.success
      THEN [db |-> db, error |-> "MatchmakingError", rng |-> result.rng]
    ELSE [db |-> [db EXCEPT
                    !.games[event_id] =
                        [i \in 1..Len(result.games) |->
                            NewGameRow(result.games[i], player_ratings)],
                    !.events[event_id].status = "GENERATED",
                    !.events[event_id].generation_meta = <<result.metadata>>],
          error |-> "none", rng |-> result.rng]

\* EventService.generate_schedule; clock_seed is the seed the generator
\* derives from the clock when new_seed is set.  Also returns the random state.
generate_schedule(db, event_id, new_seed, clock_seed, rng) ==
    IF event_id \notin DOMAIN db.events
      THEN [db |-> db, error |-> "NotFound", rng |-> rng]
    ELSE IF generate_schedule_guard(db.events[event_id])
      THEN [db |-> db, error |-> "BadRequest", rng |-> rng]
    ELSE
      LET event == db.events[event_id]
          settings == db.settings
          players == get_participants(db, event_id)
          prev_event == IF settings.noRepeatTeammateFromPreviousEvent
                        THEN get_previous_event(db, event_id) ELSE {}
          previous_pairs == UNION {get_teammate_pairs_from_event(db, e) : e \in prev_event}
          config == [no_repeat_teammate_in_event |-> settings.noRepeatTeammateInEvent,
                     no_repeat_teammate_from_previous_event |->
                         settings.noRepeatTeammateFromPreviousEvent,
                     no_repeat_opponent_in_event |-> settings.noRepeatOpponentInEvent,
                     elo_diff |-> settings.eloDiff,
                     auto_relax_elo_diff |-> settings.autoRelaxEloDiff,
                     auto_relax_step |-> settings.autoRelaxStep,
                     auto_relax_max_elo_diff |-> settings.autoRelaxMaxEloDiff]
          seed == IF new_seed THEN clock_seed ELSE EventSeed(event_id)
          player_ratings == [pid \in {players[i].id : i \in 1..Len(players)} |->
                                db.group_players[pid].rating]
      IN  generate_schedule_store(db, event_id, player_ratings,
              generate(players, event.courts, event.rounds, config,
                       previous_pairs, seed, rng))

\* row[pos] for pos 1..4 = team1_p1, team1_p2, team2_p1, team2_p2
GetPos(row, pos) ==
    IF pos = 1 THEN row.team1_p1 ELSE IF pos = 2 THEN row.team1_p2
    ELSE IF pos = 3 THEN row.team2_p1 ELSE row.team2_p2

\* variant: the swapped column is left as it was
SetPos_mut(row, pos, player_id) ==
    IF pos = 1 THEN [row EXCEPT !.team1_p1 = player_id]
    ELSE IF pos = 2 THEN [row EXCEPT !.team1_p2 = player_id]
    ELSE IF pos = 3 THEN [row EXCEPT !.team2_p1 = player_id]
    ELSE [row EXCEPT !.team2_p2 = player_id]

\* UPDATE games SET {pos} = player_id, swapped = TRUE
SetPos(row, pos, player_id) ==
    IF pos = 1 THEN [row EXCEPT !.team1_p1 = player_id, !.swapped = TRUE]
    ELSE IF pos = 2 THEN [row EXCEPT !.team1_p2 = player_id, !.swapped = TRUE]
    ELSE IF pos = 3 THEN [row EXCEPT !.team2_p1 = player_id, !.swapped = TRUE]
    ELSE [row EXCEPT !.team2_p2 = player_id, !.swapped = TRUE]

\* the search loop of swap_players: the last (game, position) of the round
\* that holds player_id, as a set of at most one <<game index, position>>
FindInRound(games, round_index, player_id) ==
    LET hits == {gp \in (1..Len(games)) \X (1..4) :
                    /\ games[gp[1]].round_index = round_index
                    /\ GetPos(games[gp[1]], gp[2]) = player_id}
        after(a, b) == a[1] > b[1] \/ (a[1] = b[1] /\ a[2] > b[2])
    IN  {gp \in hits : \A o \in hits \ {gp} : after(gp, o)}

\* variant: the status is left as it was
StartedStatus_mut(status) == status

\* "if event['status'] == 'GENERATED': update_status(event_id, 'IN_PROGRESS')"
StartedStatus(status) == IF status = "GENERATED" THEN "IN_PROGRESS" ELSE status

\* variant: a completed event accepts swaps
swap_players_guard_mut(event) == FALSE

\* "if event['status'] == 'COMPLETED': raise BadRequestError"
swap_players_guard(event) == event.status = "COMPLETED"

\* EventService.swap_players
swap_players(db, event_id, round_index, player1_id, player2_id) ==
    IF event_id \notin DOMAIN db.events THEN Failed(db, "NotFound")
    ELSE IF swap_players_guard(db.events[event_id]) THEN Failed(db, "BadRequest")
    ELSE
      LET all_games == db.games[event_id]
          f1 == FindInRound(all_games, round_index, player1_id)
          f2 == FindInRound(all_games, round_index, player2_id)
      IN  IF \A i \in 1..Len(all_games) : all_games[i].round_index # round_index
            THEN Failed(db, "BadRequest")
          ELSE IF f1 = {} \/ f2 = {} THEN Failed(db, "BadRequest")
          ELSE
            LET g1 == (CHOOSE gp \in f1 : TRUE)[1]
                pos1 == (CHOOSE gp \in f1 : TRUE)[2]
                g2 == (CHOOSE gp \in f2 : TRUE)[1]
                pos2 == (CHOOSE gp \in f2 : TRUE)[2]
                swapped_games ==
                    IF g1 = g2
                    THEN [all_games EXCEPT
                            ![g1] = SetPos(SetPos(@, pos1, player2_id), pos2, player1_id)]
                    ELSE [all_games EXCEPT
                            ![g1] = SetPos(@, pos1, player2_id),
                            ![g2] = SetPos(@, pos2, player1_id)]
            IN  IF g1 = g2 /\ pos1 = pos2
                  THEN Failed(db, "DatabaseError")  \* SET of one column twice
                ELSE Done([db EXCEPT
                             !.games[event_id] = swapped_games,
                             !.events[event_id].status =
                                 StartedStatus(@)])

\* "warnings = []  # TODO: Implement constraint warnings for swaps"
swap_players_warnings(db, event_id, round_index, player1_id, player2_id) == <<>>

\* the SwapResponse of EventService.swap_players, when it does not raise
SwapResponse(db, event_id, round_index, player1_id, player2_id) ==
    [success |-> TRUE,
     warnings |-> swap_players_warnings(db, event_id, round_index,
                                        player1_id, player2_id)]

\* variant: only the first score is tested for null
ResultOf_mut(score_team1, score_team2) ==
    IF score_team1 = None THEN "UNSET"
    ELSE IF score_team1 > score_team2 THEN "TEAM1_WIN"
    ELSE IF score_team2 > score_team1 THEN "TEAM2_WIN"
    ELSE "TIE"

\* GamesRepository.update_score: the result tag derived from the scores
ResultOf(score_team1, score_team2) ==
    IF score_team1 = None \/ score_team2 = None THEN "UNSET"
    ELSE IF score_team1 > score_team2 THEN "TEAM1_WIN"
    ELSE IF score_team2 > score_team1 THEN "TEAM2_WIN"
    ELSE "TIE"

\* the GameForRating of a games row, ratings looked up by rating_of
ToGameForRating(row, rating_of) ==
    [team1 |-> <<[player_id |-> row.team1_p1, rating |-> rating_of[row.team1_p1]],
                 [player_id |-> row.team1_p2, rating |-> rating_of[row.team1_p2]]>>,
     team2 |-> <<[player_id |-> row.team2_p1, rating |-> rating_of[row.team2_p1]],
                 [player_id |-> row.team2_p2, rating |-> rating_of[row.team2_p2]]>>,
     result |-> row.result,
     score_team1 |-> row.score_team1, score_team2 |-> row.score_team2]

\* variant: the games without a result are counted too
CountStats_mut(rows, player_id) ==
    LET played == {i \in 1..Len(rows) : player_id \in RowPlayers(rows[i])}
        team(i) == IF player_id \in {rows[i].team1_p1, rows[i].team1_p2} THEN 1 ELSE 2
        won(i) == \/ rows[i].result = "TEAM1_WIN" /\ team(i) = 1
                  \/ rows[i].result = "TEAM2_WIN" /\ team(i) = 2
    IN  [games |-> Cardinality(played),
         wins |-> Cardinality({i \in played : won(i)}),
         losses |-> Cardinality({i \in played : rows[i].result # "TIE" /\ ~won(i)}),
         ties |-> Cardinality({i \in played : rows[i].result = "TIE"})]

\* games played / wins / losses / ties of player_id over the scored rows
CountStats(rows, player_id) ==
    LET played == {i \in 1..Len(rows) :
                      rows[i].result # "UNSET" /\ player_id \in RowPlayers(rows[i])}
        team(i) == IF player_id \in {rows[i].team1_p1, rows[i].team1_p2} THEN 1 ELSE 2
        won(i) == \/ rows[i].result = "TEAM1_WIN" /\ team(i) = 1
                  \/ rows[i].result = "TEAM2_WIN" /\ team(i) = 2
    IN  [games |-> Cardinality(played),
         wins |-> Cardinality({i \in played : won(i)}),
         losses |-> Cardinality({i \in played : rows[i].result # "TIE" /\ ~won(i)}),
         ties |-> Cardinality({i \in played : rows[i].result = "TIE"})]

\* GroupService.recalculate_ratings: the initial rating of a player, from
\* the skill level alone
ReplayInitialRating(settings, skill_level) ==
    LET base_rating == settings.initialRating
    IN  IF skill_level = "ADVANCED" THEN base_rating + SkillOffset(base_rating)
        ELSE IF skill_level = "BEGINNER" THEN base_rating - SkillOffset(base_rating)
        ELSE base_rating

\* variant: the replay starts from the ratings stored in the database
replay_start_ratings_mut(db) ==
    [pid \in DOMAIN db.group_players |-> db.group_players[pid].rating]

\* current_ratings at the start of the replay
replay_start_ratings(db) ==
    [pid \in DOMAIN db.group_players |->
        ReplayInitialRating(db.settings, db.group_players[pid].skill_level)]

\* variant: the events are replayed latest first
RECURSIVE OrderEvents_mut(_, _)
OrderEvents_mut(db, ids) ==
    IF ids = {} THEN <<>>
    ELSE LET first == CHOOSE e \in ids : \A o \in ids \ {e} :
                          \/ db.events[e].starts_at > db.events[o].starts_at
                          \/ /\ db.events[e].starts_at = db.events[o].starts_at
                             /\ db.events[e].created_at > db.events[o].created_at
         IN  <<first>> \o OrderEvents_mut(db, ids \ {first})

\* SELECT ... WHERE status = 'COMPLETED' ORDER BY starts_at ASC, created_at ASC
RECURSIVE OrderEvents(_, _)
OrderEvents(db, ids) ==
    IF ids = {} THEN <<>>
    ELSE LET first == CHOOSE e \in ids : \A o \in ids \ {e} :
                          \/ db.events[e].starts_at < db.events[o].starts_at
                          \/ /\ db.events[e].starts_at = db.events[o].starts_at
                             /\ db.events[e].created_at < db.events[o].created_at
         IN  <<first>> \o OrderEvents(db, ids \ {first})

completed_events(db) ==
    OrderEvents(db, {e \in DOMAIN db.events : db.events[e].status = "COMPLETED"})

ZeroStats == [games |-> 0, wins |-> 0, losses |-> 0, ties |-> 0]

AddStats(a, b) ==
    [games |-> a.games + b.games, wins |-> a.wins + b.wins,
     losses |-> a.losses + b.losses, ties |-> a.ties + b.ties]

\* the scored rows of one round, in row order
RoundGames(rows, round_index) ==
    SelectSeq(rows, LAMBDA g : g.round_index = round_index /\ g.result # "UNSET")

\* variant: the snapshot is taken after the round's deltas were applied
replay_snapshot_ratings_mut(st, deltas) ==
    [pid \in DOMAIN st.current_ratings |->
        IF pid \in DOMAIN deltas THEN deltas[pid].rating_after
        ELSE st.current_ratings[pid]]

\* the ratings the team Elo of a round's games is computed from: the
\* in-memory ratings as the round starts
replay_snapshot_ratings(st, deltas) == st.current_ratings

\* one round of the replay once its deltas are known: the team ratings of the
\* round's games, the running ratings and the running statistics
ReplayRoundApply(st, round_index, round_games, deltas) ==
    LET idx == {i \in 1..Len(st.games) :
                   st.games[i].round_index = round_index /\ st.games[i].result # "UNSET"}
    IN  [st EXCEPT
           !.games = [i \in 1..Len(st.games) |->
                         IF i \in idx
                         THEN [st.games[i] EXCEPT
                                 !.team1_elo =
                                     replay_snapshot_ratings(st, deltas)[st.games[i].team1_p1]
                                     + replay_snapshot_ratings(st, deltas)[st.games[i].team1_p2],
                                 !.team2_elo =
                                     replay_snapshot_ratings(st, deltas)[st.games[i].team2_p1]
                                     + replay_snapshot_ratings(st, deltas)[st.games[i].team2_p2]]
                         ELSE st.games[i]],
           !.current_ratings = [pid \in DOMAIN st.current_ratings |->
                                   IF pid \in DOMAIN deltas THEN deltas[pid].rating_after
                                   ELSE st.current_ratings[pid]],
           !.player_stats = [pid \in DOMAIN st.player_stats |->
                                AddStats(st.player_stats[pid], CountStats(round_games, pid))]]

\* the deltas of one round of the replay
ReplayRoundDeltas(settings, current_ratings, round_games) ==
    calculate_deltas(settings.ratingSystem, settings.kFactor, settings.eloConst,
                     [i \in 1..Len(round_games) |->
                         ToGameForRating(round_games[i], current_ratings)],
                     current_ratings)

\* one round of one event in the replay; st = [current_ratings, player_stats,
\* games (the event's rows)]
ReplayRound(settings, st, round_index) ==
    ReplayRoundApply(st, round_index, RoundGames(st.games, round_index),
        ReplayRoundDeltas(settings, st.current_ratings, RoundGames(st.games, round_index)))

\* "for round_index in sorted(games_by_round.keys())"
RECURSIVE ReplayRounds(_, _, _)
ReplayRounds(settings, st, todo) ==
    IF todo = {} THEN st
    ELSE LET r == CHOOSE r \in todo : \A o \in todo : r <= o
         IN  ReplayRounds(settings, ReplayRound(settings, st, r), todo \ {r})

\* variant: a record is written for every player of the event's games
ReplayEventRecords_mut(db, rs, event_id, st) ==
    LET games == rs.games[event_id]
        event_players == UNION {RowPlayers(games[i]) : i \in 1..Len(games)}
        rating_updates ==
            {[event_id |-> event_id, group_player_id |-> pid,
              rating_before |-> rs.current_ratings[pid],
              rating_after |-> st.current_ratings[pid],
              delta |-> st.current_ratings[pid] - rs.current_ratings[pid],
              system |-> db.settings.ratingSystem] : pid \in event_players}
    IN  IF Len(games) = 0 THEN rs
        ELSE [current_ratings |-> st.current_ratings,
              player_stats |-> st.player_stats,
              games |-> [rs.games EXCEPT ![event_id] = st.games],
              rating_updates |-> rs.rating_updates (+) SetToBag(rating_updates)]

\* the end of the body of "for event in completed_events": the records of
\* the players whose rating changed over the event, st being the state after
\* the event's rounds
ReplayEventRecords(db, rs, event_id, st) ==
    LET games == rs.games[event_id]
        event_players == UNION {RowPlayers(games[i]) : i \in 1..Len(games)}
        ratings_before_event == [pid \in event_players |-> rs.current_ratings[pid]]
        rating_updates ==
            {[event_id |-> event_id, group_player_id |-> pid,
              rating_before |-> ratings_before_event[pid],
              rating_after |-> st.current_ratings[pid],
              delta |-> st.current_ratings[pid] - ratings_before_event[pid],
              system |-> db.settings.ratingSystem] :
             pid \in {q \in event_players :
                         st.current_ratings[q] - ratings_before_event[q] # 0}}
    IN  IF Len(games) = 0 THEN rs
        ELSE [current_ratings |-> st.current_ratings,
              player_stats |-> st.player_stats,
              games |-> [rs.games EXCEPT ![event_id] = st.games],
              rating_updates |-> rs.rating_updates (+) SetToBag(rating_updates)]

\* the body of "for event in completed_events"; rs = [current_ratings,
\* player_stats, games (all events), rating_updates]
ReplayEvent(db, rs, event_id) ==
    LET games == rs.games[event_id]
        scored_rounds == {games[i].round_index :
                             i \in {j \in 1..Len(games) : games[j].result # "UNSET"}}
    IN  ReplayEventRecords(db, rs, event_id,
            ReplayRounds(db.settings,
                         [current_ratings |-> rs.current_ratings,
                          player_stats |-> rs.player_stats, games |-> games],
                         scored_rounds))

RECURSIVE ReplayEvents(_, _, _, _)
ReplayEvents(db, rs, events, i) ==
    IF i > Len(events) THEN rs
    ELSE ReplayEvents(db, ReplayEvent(db, rs, events[i]), events, i + 1)

\* GroupService.recalculate_ratings: "Final update to all players", with the
\* games and records written during the replay
recalculate_write(db, rs) ==
        Done([db EXCEPT
                !.group_players =
                    [pid \in DOMAIN db.group_players |->
                        [db.group_players[pid] EXCEPT
                           !.rating = rs.current_ratings[pid],
                           !.games_played = rs.player_stats[pid].games,
                           !.wins = rs.player_stats[pid].wins,
                           !.losses = rs.player_stats[pid].losses,
                           !.ties = rs.player_stats[pid].ties]],
                !.games = rs.games,
                !.rating_updates = rs.rating_updates])

\* GroupService.recalculate_ratings
recalculate_ratings(db) ==
    LET kept == {u \in DOMAIN db.rating_updates : u.event_id \notin DOMAIN db.events}
    IN  recalculate_write(db,
            ReplayEvents(db,
                [current_ratings |-> replay_start_ratings(db),
                 player_stats |-> [pid \in DOMAIN db.group_players |-> ZeroStats],
                 games |-> db.games,
                 rating_updates |-> [u \in kept |-> db.rating_updates[u]]],
                completed_events(db), 1))

\* variant: an edit never triggers the recalculation
update_score_recalculates_mut(event) == FALSE

\* "If event was COMPLETED, trigger recalculation"
update_score_recalculates(event) == event.status = "COMPLETED"

\* EventService.update_score; game_id = <<event id, position>>
update_score(db, game_id, score_team1, score_team2) ==
    IF game_id[1] \notin DOMAIN db.events THEN Failed(db, "NotFound")
    ELSE IF game_id[2] \notin 1..Len(db.games[game_id[1]]) THEN Failed(db, "NotFound")
    ELSE
      LET event == db.events[game_id[1]]
          updated == [db EXCEPT
                        !.games[game_id[1]][game_id[2]] =
                            [@ EXCEPT !.score_team1 = score_team1,
                                      !.score_team2 = score_team2,
                                      !.result = ResultOf(score_team1, score_team2)],
                        !.events[game_id[1]].status =
                            StartedStatus(@)]
      IN  IF update_score_recalculates(event) THEN recalculate_ratings(updated)
          ELSE Done(updated)

\* variant: every participant is updated and recorded
complete_event_updated_mut(deltas, participants) ==
    {participants[i] : i \in 1..Len(participants)}

\* the players complete_event updates: those with a delta who participate
complete_event_updated(deltas, participants) ==
    (DOMAIN deltas) \cap {participants[i] : i \in 1..Len(participants)}

\* variant: an event may be completed from any status
complete_event_guard_mut(event) == FALSE

\* "if COMPLETED: raise BadRequestError ... if DRAFT: raise BadRequestError"
complete_event_guard(event) == event.status = "COMPLETED" \/ event.status = "DRAFT"

\* EventService.complete_event: "Apply rating updates - only for event
\* participants", the audit records and the status
complete_event_apply(db, event_id, deltas) ==
      LET settings == db.settings
          games == db.games[event_id]
          updated == complete_event_updated(deltas, db.events[event_id].participants)
          after(pid) == IF pid \in DOMAIN deltas THEN deltas[pid].rating_after
                        ELSE db.group_players[pid].rating
          before(pid) == IF pid \in DOMAIN deltas THEN deltas[pid].rating_before
                         ELSE db.group_players[pid].rating
          rating_updates ==
              {[event_id |-> event_id, group_player_id |-> pid,
                rating_before |-> before(pid), rating_after |-> after(pid),
                delta |-> IF pid \in DOMAIN deltas THEN deltas[pid].delta ELSE 0,
                system |-> settings.ratingSystem] : pid \in updated}
      IN  Done([db EXCEPT
                  !.group_players =
                      [pid \in DOMAIN db.group_players |->
                          IF pid \in updated
                          THEN LET c == CountStats(games, pid)
                               IN  [db.group_players[pid] EXCEPT
                                      !.rating = after(pid),
                                      !.games_played = @ + c.games,
                                      !.wins = @ + c.wins,
                                      !.losses = @ + c.losses,
                                      !.ties = @ + c.ties]
                          ELSE db.group_players[pid]],
                  !.rating_updates = @ (+) SetToBag(rating_updates),
                  !.events[event_id].status = "COMPLETED"])

\* EventService.complete_event
complete_event(db, event_id) ==
    IF event_id \notin DOMAIN db.events THEN Failed(db, "NotFound")
    ELSE IF complete_event_guard(db.events[event_id]) THEN Failed(db, "BadRequest")
    ELSE
      LET settings == db.settings
          participants == db.events[event_id].participants
          current_ratings == [pid \in {participants[i] : i \in 1..Len(participants)} |->
                                 db.group_players[pid].rating]
          joined == [pid \in DOMAIN db.group_players |-> db.group_players[pid].rating]
          scored == SelectSeq(db.games[event_id], LAMBDA g : g.result # "UNSET")
          games_for_rating == [i \in 1..Len(scored) |-> ToGameForRating(scored[i], joined)]
      IN  complete_event_apply(db, event_id,
              calculate_deltas(settings.ratingSystem, settings.kFactor,
                               settings.eloConst, games_for_rating, current_ratings))

\* variant: a completed event may be deleted
delete_event_guard_mut(event) == FALSE

\* "if event['status'] == 'COMPLETED': raise BadRequestError"
delete_event_guard(event) == event.status = "COMPLETED"

\* EventService.delete_event; the delete cascades to the event's games,
\* participants and rating updates
delete_event(db, event_id) ==
    IF event_id \notin DOMAIN db.events THEN Failed(db, "NotFound")
    ELSE IF delete_event_guard(db.events[event_id]) THEN Failed(db, "BadRequest")
    ELSE Done([db EXCEPT
                 !.events = WithoutEvent(@, event_id),
                 !.games = WithoutEvent(@, event_id),
                 !.rating_updates =
                     [u \in {v \in DOMAIN @ : v.event_id # event_id} |-> @[u]]])

\* the members of the group: regulars without a skill level and substitutes
\* with one
Roster ==
    <<[membership_type |-> "PERMANENT", skill_level |-> "NONE"],
      [membership_type |-> "SUB", skill_level |-> "ADVANCED"],
      [membership_type |-> "SUB", skill_level |-> "BEGINNER"],
      [membership_type |-> "PERMANENT", skill_level |-> "NONE"],
      [membership_type |-> "PERMANENT", skill_level |-> "NONE"]>>

\* the database after the group was created and its members added
InitDb(ratingSystem) ==
    LET settings == Settings(ratingSystem, 250)
    IN  [settings |-> settings,
         group_players |-> [pid \in 1..Len(Roster) |->
             NewGroupPlayer(settings, Roster[pid].membership_type, Roster[pid].skill_level)],
         events |-> [e \in {} |-> 0],
         games |-> [e \in {} |-> 0],
         rating_updates |-> EmptyBag,
         next_event_id |-> 1]

(***************************************************************************)
(* Specification SpecGen: the generator as a pure function.  The inputs    *)
(* are drawn in the initial state; generate() is run twice on them, in a   *)
(* process whose random state is whatever the previous call left.          *)
(***************************************************************************)

VARIABLES
    gin,     \* the arguments of ScheduleGenerator(...)
    gres1,   \* GenerationResult of the first run
    gres2,   \* GenerationResult of the second run
    gpc,     \* "ready", "once", "twice"; "off" when the services run
    rng,     \* state of the process-wide random generator
    db,      \* the database
    calls,   \* the requests served statement by statement: call id -> locals
    rankings_cache,  \* rankings_cache._cache: key -> (data, expires)
    now,             \* datetime.now(), in seconds
    last_read        \* the last GET /groups/{id}/rankings and its response

vars == <<gin, gres1, gres2, gpc, rng, db, calls, rankings_cache, now, last_read>>

\* what the rankings endpoint owns
readvars == <<rankings_cache, now, last_read>>

\* TTLCache.__init__: "self._cache = {}"
EmptyCache == [key \in {} |-> 0]

\* no rankings were read yet
NoRead == [user_id |-> "", group_id |-> 0, status |-> "none", rankings |-> <<>>,
           cache_ops |-> <<>>]

\* the rankings endpoint has not been called
NoReads == rankings_cache = EmptyCache /\ now = 0 /\ last_read = NoRead

MaxRounds == 3

Players4(r1, r2, r3, r4) ==
    <<[id |-> 1, rating |-> r1], [id |-> 2, rating |-> r2],
      [id |-> 3, rating |-> r3], [id |-> 4, rating |-> r4]>>

\* four-player populations (C = 1) with the elo_diff they are tried at
Cases4 ==
    { [players |-> Players4(100000, 100000, 95000, 95000), elo_diff |-> 50],
      [players |-> Players4(100000, 105000, 110000, 115000), elo_diff |-> 10],
      [players |-> Players4(80000, 90000, 120000, 150000), elo_diff |-> 50],
      [players |-> Players4(10000, 10000, 10000, 100000), elo_diff |-> 300] }

PrevSets4 == { {}, {{1, 2}}, {{1, 2}, {1, 3}, {1, 4}} }

Toggles == [no_repeat_teammate_in_event : BOOLEAN,
            no_repeat_teammate_from_previous_event : BOOLEAN,
            no_repeat_opponent_in_event : BOOLEAN]

Config(t, elo_diff, relax, step, max) ==
    [no_repeat_teammate_in_event |-> t.no_repeat_teammate_in_event,
     no_repeat_teammate_from_previous_event |-> t.no_repeat_teammate_from_previous_event,
     no_repeat_opponent_in_event |-> t.no_repeat_opponent_in_event,
     elo_diff |-> elo_diff, auto_relax_elo_diff |-> relax,
     auto_relax_step |-> step, auto_relax_max_elo_diff |-> max]

Inputs4 ==
    { [players |-> c.players, courts |-> 1, rounds |-> r,
       config |-> Config(t, c.elo_diff, relax, 50, 500),
       previous_teammate_pairs |-> pv, seed |-> sd] :
         c \in Cases4, r \in 1..MaxRounds, t \in Toggles, relax \in BOOLEAN,
         pv \in PrevSets4, sd \in Seeds }

\* eight-player populations (C = 2): the population of the determinism tests
\* and the spread population of test_auto_relax_records_metadata
Players8a == [i \in 1..8 |-> [id |-> i, rating |-> 100000 + (i - 1) * 5000]]
Players8b == [i \in 1..8 |->
                [id |-> i,
                 rating |-> <<80000, 85000, 110000, 115000, 120000, 125000, 140000, 145000>>[i]]]

\* four equal players beside four players no balanced match can hold
Players8c == [i \in 1..8 |->
                [id |-> i,
                 rating |-> <<100000, 100000, 100000, 100000, 10000, 30000, 90000, 270000>>[i]]]

AllOff == [no_repeat_teammate_in_event |-> FALSE,
           no_repeat_teammate_from_previous_event |-> FALSE,
           no_repeat_opponent_in_event |-> FALSE]

AllOn == [no_repeat_teammate_in_event |-> TRUE,
          no_repeat_teammate_from_previous_event |-> TRUE,
          no_repeat_opponent_in_event |-> TRUE]

Inputs8 ==
    { [players |-> Players8a, courts |-> 2, rounds |-> r,
       config |-> Config(AllOn, 250, TRUE, 50, 500),
       previous_teammate_pairs |-> pv, seed |-> sd] :
         r \in 1..MaxRounds, pv \in { {}, {{1, 2}, {3, 4}} }, sd \in Seeds }
    \cup
    { [players |-> Players8b, courts |-> 2, rounds |-> 2,
       config |-> Config(AllOn, 10, TRUE, 50, 500),
       previous_teammate_pairs |-> {}, seed |-> sd] : sd \in Seeds }
    \cup
    { [players |-> Players8c, courts |-> 2, rounds |-> 1,
       config |-> Config(AllOff, 10, relax, 50, 500),
       previous_teammate_pairs |-> {}, seed |-> sd] : relax \in BOOLEAN, sd \in Seeds }

\* a few calls without a seed, and two with a wrong number of players
InputsOther ==
    { [players |-> Players4(100000, 100000, 95000, 95000), courts |-> 1, rounds |-> 2,
       config |-> Config(AllOn, 50, TRUE, 50, 500),
       previous_teammate_pairs |-> {}, seed |-> NoSeed],
      [players |-> Players4(100000, 100000, 95000, 95000), courts |-> 2, rounds |-> 1,
       config |-> Config(AllOn, 50, TRUE, 50, 500),
       previous_teammate_pairs |-> {}, seed |-> 1],
      [players |-> Players4(0, 0, 0, 0), courts |-> 1, rounds |-> 1,
       config |-> Config(AllOn, 50, TRUE, 50, 500),
       previous_teammate_pairs |-> {}, seed |-> 1],
      [players |-> Players8a, courts |-> 1, rounds |-> 1,
       config |-> Config(AllOn, 250, TRUE, 50, 500),
       previous_teammate_pairs |-> {}, seed |-> 1] }

GenInputs == Inputs4 \cup Inputs8 \cup InputsOther

NoResult == [raised |-> FALSE, success |-> FALSE, games |-> <<>>,
             metadata |-> Metadata(Config(AllOn, 0, FALSE, 0, 0), NoSeed, 0, 0, 0),
             error_message |-> "not run", rng |-> 0]

InitGen ==
    /\ NoReads
    /\ gin \in GenInputs
    /\ gres1 = NoResult
    /\ gres2 = NoResult
    /\ gpc = "ready"
    /\ rng = 7
    /\ db = InitDb("SERIOUS_ELO")
    /\ calls = <<>>

\* first call of ScheduleGenerator(...).generate()
GenerateFirst ==
    /\ gpc = "ready"
    /\ \E sd \in SeedChoices(gin.seed) :
          gres1' = generate(gin.players, gin.courts, gin.rounds, gin.config,
                            gin.previous_teammate_pairs, sd, rng)
    /\ rng' = gres1'.rng
    /\ gpc' = "once"
    /\ UNCHANGED <<readvars, calls, gin, gres2, db>>

\* second call, same arguments, later in the same process
GenerateSecond ==
    /\ gpc = "once"
    /\ \E sd \in SeedChoices(gin.seed) :
          gres2' = generate(gin.players, gin.courts, gin.rounds, gin.config,
                            gin.previous_teammate_pairs, sd, rng)
    /\ rng' = gres2'.rng
    /\ gpc' = "twice"
    /\ UNCHANGED <<readvars, calls, gin, gres1, db>>

NextGen == GenerateFirst \/ GenerateSecond

SpecGen == InitGen /\ [][NextGen]_vars

(***************************************************************************)
(* Properties of the generator (checked under SpecGen)                     *)
(***************************************************************************)

GenResults == {gres1, gres2}
ParticipantIds == {gin.players[i].id : i \in 1..Len(gin.players)}
RatingOfParticipant(id) ==
    gin.players[CHOOSE i \in 1..Len(gin.players) : gin.players[i].id = id].rating
GameIdx(res) == 1..Len(res.games)
RoundIdx(res, r) == {i \in GameIdx(res) : res.games[i].round_index = r}
TimesTeamed(res, pair) ==
    Cardinality({i \in GameIdx(res) : pair \in teammate_pairs(res.games[i])})
TimesOpposed(res, pair) ==
    Cardinality({i \in GameIdx(res) : pair \in opponent_pairs(res.games[i])})
PlayerPairs == {{a, b} : a, b \in ParticipantIds} \ {{a} : a \in ParticipantIds}

\* C1: a successful result holds R*C games; every round has exactly C games on
\* courts 0..C-1, each court once, with pairwise disjoint player sets whose
\* union is the participant set; a failed result has no games.
C1_EveryRoundUsesEveryPlayerOnce ==
    \A res \in GenResults :
        /\ res.success =>
              /\ Len(res.games) = gin.rounds * gin.courts
              /\ \A r \in 0..(gin.rounds - 1) :
                    /\ Cardinality(RoundIdx(res, r)) = gin.courts
                    /\ \A c \in 0..(gin.courts - 1) :
                          Cardinality({i \in RoundIdx(res, r) : res.games[i].court_index = c}) = 1
                    /\ \A i, j \in RoundIdx(res, r) :
                          i # j => all_players(res.games[i]) \cap all_players(res.games[j]) = {}
                    /\ \A i \in RoundIdx(res, r) : Cardinality(all_players(res.games[i])) = 4
                    /\ UNION {all_players(res.games[i]) : i \in RoundIdx(res, r)} = ParticipantIds
        /\ ~res.success => res.games = <<>>

C1_Witness ==
    /\ gpc = "once" /\ gres1.success
    /\ gin.courts = 2 /\ gin.rounds >= 2
    /\ Len(gres1.games) = gin.rounds * 2

\* C2: with no_repeat_teammate_in_event, no pair of players is on the same
\* team in more than one game of a successful schedule.
C2_NoRepeatTeammateInEvent ==
    \A res \in GenResults :
        (res.success /\ gin.config.no_repeat_teammate_in_event) =>
            \A pair \in PlayerPairs : TimesTeamed(res, pair) <= 1

C2_Witness ==
    /\ gpc = "once" /\ gres1.success /\ gin.config.no_repeat_teammate_in_event
    /\ gin.rounds >= 3
    /\ \E pair \in PlayerPairs : TimesTeamed(gres1, pair) = 1

\* C3: with no_repeat_opponent_in_event, every pair of players is on opposing
\* teams in at most two games of a successful schedule (a second meeting is
\* allowed, a third is not).
C3_OpponentsAtMostTwice ==
    \A res \in GenResults :
        (res.success /\ gin.config.no_repeat_opponent_in_event) =>
            \A pair \in PlayerPairs : TimesOpposed(res, pair) <= 2

C3_Witness ==
    /\ gpc = "once" /\ gres1.success /\ gin.config.no_repeat_opponent_in_event
    /\ gin.rounds >= 3
    /\ \E pair \in PlayerPairs : TimesOpposed(gres1, pair) = 2

\* C4: with no_repeat_teammate_from_previous_event, no pair of the previous
\* event's teammate pair-set is teamed in a successful schedule; with the
\* toggle off the pair-set has no effect on the outcome.
C4_NoTeammateFromPreviousEvent ==
    \A res \in GenResults :
        /\ (res.success /\ gin.config.no_repeat_teammate_from_previous_event) =>
              \A i \in GameIdx(res) :
                  teammate_pairs(res.games[i]) \cap gin.previous_teammate_pairs = {}
        /\ (res.error_message # "not run"
              /\ ~gin.config.no_repeat_teammate_from_previous_event) =>
              LET alone == generate(gin.players, gin.courts, gin.rounds, gin.config, {},
                                    res.metadata.seed_used, 7)
              IN  /\ res.success = alone.success
                  /\ res.games = alone.games
                  /\ res.metadata = alone.metadata

C4_Witness ==
    /\ gpc = "once" /\ gres1.success
    /\ gin.config.no_repeat_teammate_from_previous_event
    /\ gin.previous_teammate_pairs = {{1, 2}}
    /\ gin.rounds >= 2

\* C5: every game of a successful schedule satisfies
\* |mean(team1) - mean(team2)| / max(means) <= elo_diff_used, the boundary
\* included (written without the division; ratings are not negative, and two
\* teams of mean 0 count as balanced).
GameImbalance(g) ==
    Abs((RatingOfParticipant(g.team1[1]) + RatingOfParticipant(g.team1[2]))
        - (RatingOfParticipant(g.team2[1]) + RatingOfParticipant(g.team2[2])))
GameMaxTeam(g) ==
    Max2(RatingOfParticipant(g.team1[1]) + RatingOfParticipant(g.team1[2]),
         RatingOfParticipant(g.team2[1]) + RatingOfParticipant(g.team2[2]))

C5_GamesWithinEloDiffUsed ==
    \A res \in GenResults :
        res.success =>
            \A i \in GameIdx(res) :
                GameImbalance(res.games[i]) * 1000
                    <= res.metadata.elo_diff_used * GameMaxTeam(res.games[i])

C5_Witness ==
    /\ gpc = "once" /\ gres1.success
    /\ \E i \in GameIdx(gres1) :
          /\ GameImbalance(gres1.games[i]) > 0
          /\ GameImbalance(gres1.games[i]) * 1000
                = gres1.metadata.elo_diff_used * GameMaxTeam(gres1.games[i])

\* C6: two runs with the same arguments and the same non-empty seed return
\* the same outcome (success, games, elo_diff_used, relax_iterations), also
\* when relax iterations occur.
Outcome(res) ==
    [success |-> res.success, games |-> res.games,
     elo_diff_used |-> res.metadata.elo_diff_used,
     relax_iterations |-> res.metadata.relax_iterations]

C6_SameSeedSameSchedule ==
    (gpc = "twice" /\ gin.seed # NoSeed) => Outcome(gres1) = Outcome(gres2)

C6_Witness ==
    /\ gpc = "twice" /\ gin.seed # NoSeed
    /\ gres1.success /\ gres2.success
    /\ gres1.metadata.relax_iterations >= 1
    /\ gres1.rng # 7
    /\ Len(gres2.games) >= 2

(***************************************************************************)
(* Specification SpecEvents: the event lifecycle of one group.  Requests   *)
(* arrive in any order; each action is one handler call.  A call that      *)
(* raises leaves the database as it was.                                    *)
(***************************************************************************)

RatingSystems == {"SERIOUS_ELO", "CATCH_UP", "RACS_ELO"}
EventIds == {1, 2}
\* the events the organizer plans, the next one once the earlier ones are
\* completed or deleted: one per date, or a second one-round event on the
\* date of the first
EventRequests ==
    { [participant_ids |-> <<1, 2, 3, 4>>, courts |-> 1, rounds |-> 2, starts_at |-> 2],
      [participant_ids |-> <<2, 3, 4, 5>>, courts |-> 1, rounds |-> 1, starts_at |-> 1],
      [participant_ids |-> <<1, 2, 3>>, courts |-> 1, rounds |-> 1, starts_at |-> 3] }
\* the scores reported for a game, by its position in the event
Scores(pos) ==
    IF pos = 1 THEN {<<11, 5>>, <<7, 7>>, <<None, None>>}
    ELSE {<<5, 11>>, <<None, None>>}
\* the seeds the generator may derive from the clock
ClockSeeds == {1}
\* the swaps requested: <<round_index, player1_id, player2_id>>
SwapRequests == {<<0, 1, 2>>, <<0, 1, 5>>, <<0, 2, 2>>, <<2, 1, 2>>}

InitEvents ==
    /\ NoReads
    /\ gin = <<>>
    /\ gres1 = NoResult
    /\ gres2 = NoResult
    /\ gpc = "off"
    /\ rng = 7
    /\ db \in {InitDb(rs) : rs \in RatingSystems}
    /\ calls = <<>>

\* POST /groups/{id}/events
CreateEvent ==
    /\ gpc = "off"
    /\ db.next_event_id \in EventIds
    /\ \E req \in EventRequests :
          /\ \A e \in DOMAIN db.events :
                /\ db.events[e].starts_at # req.starts_at \/ req.rounds = 1
                /\ db.events[e].status = "COMPLETED"
          /\ db' = create_event(db, req.participant_ids, req.courts, req.rounds,
                                req.starts_at).db
    /\ UNCHANGED <<readvars, calls, gin, gres1, gres2, gpc, rng>>

\* POST /events/{id}/generate
GenerateSchedule ==
    /\ gpc = "off"
    /\ \E event_id \in EventIds, sd \in {NoSeed} \cup ClockSeeds :
          \E r \in {generate_schedule(db, event_id, sd # NoSeed, sd, rng)} :
              db' = r.db /\ rng' = r.rng
    /\ UNCHANGED <<readvars, calls, gin, gres1, gres2, gpc>>

\* the requests explored swap at most once between two generations of an
\* event that can still be swapped
SwapExplored(event_id) ==
    IF event_id \notin DOMAIN db.events THEN TRUE
    ELSE IF db.events[event_id].status = "COMPLETED" THEN TRUE
    ELSE \A i \in 1..Len(db.games[event_id]) : ~db.games[event_id][i].swapped

\* POST /events/{id}/swap
SwapPlayers ==
    /\ gpc = "off"
    /\ \E event_id \in EventIds, req \in SwapRequests :
          /\ SwapExplored(event_id)
          /\ db' = swap_players(db, event_id, req[1], req[2], req[3]).db
    /\ UNCHANGED <<readvars, calls, gin, gres1, gres2, gpc, rng>>

\* PATCH /games/{id}/score
UpdateScore ==
    /\ gpc = "off"
    /\ \E event_id \in EventIds, pos \in {1, 2} : \E sc \in Scores(pos) :
          db' = update_score(db, <<event_id, pos>>, sc[1], sc[2]).db
    /\ UNCHANGED <<readvars, calls, gin, gres1, gres2, gpc, rng>>

\* POST /events/{id}/complete
CompleteEvent ==
    /\ gpc = "off"
    /\ \E event_id \in EventIds : db' = complete_event(db, event_id).db
    /\ UNCHANGED <<readvars, calls, gin, gres1, gres2, gpc, rng>>

\* DELETE /events/{id}
DeleteEvent ==
    /\ gpc = "off"
    /\ \E event_id \in EventIds : db' = delete_event(db, event_id).db
    /\ UNCHANGED <<readvars, calls, gin, gres1, gres2, gpc, rng>>

\* POST /groups/{id}/recalculate-ratings
RecalculateRatings ==
    /\ gpc = "off"
    /\ db' = recalculate_ratings(db).db
    /\ UNCHANGED <<readvars, calls, gin, gres1, gres2, gpc, rng>>

NextEvents ==
    \/ CreateEvent
    \/ GenerateSchedule
    \/ SwapPlayers
    \/ UpdateScore
    \/ CompleteEvent
    \/ DeleteEvent
    \/ RecalculateRatings

SpecEvents == InitEvents /\ [][NextEvents]_vars

(***************************************************************************)
(* Properties of the event lifecycle                                       *)
(***************************************************************************)

\* the status edges the lifecycle is described with
DescribedEdges ==
    {<<"DRAFT", "GENERATED">>, <<"GENERATED", "IN_PROGRESS">>,
     <<"GENERATED", "COMPLETED">>, <<"IN_PROGRESS", "COMPLETED">>}

\* a step moves the status of every surviving event along one of the edges
\* and neither deletes nor changes a COMPLETED event's status
StatusMovesAlong(edges) ==
    \A e \in DOMAIN db.events :
        /\ db.events[e].status = "COMPLETED" =>
              e \in DOMAIN db'.events /\ db'.events[e].status = "COMPLETED"
        /\ (e \in DOMAIN db'.events /\ db'.events[e].status # db.events[e].status) =>
              <<db.events[e].status, db'.events[e].status>> \in edges

\* C7 as stated: an event's status changes only along DRAFT->GENERATED,
\* GENERATED->IN_PROGRESS and GENERATED|IN_PROGRESS->COMPLETED; it never
\* moves backward and never leaves COMPLETED.
C7_StatusOnlyForward == [][StatusMovesAlong(DescribedEdges)]_vars

\* C7 (amended): an event's status changes only along DRAFT->GENERATED,
\* IN_PROGRESS->GENERATED (a successful generate, on any event that is not
\* COMPLETED, which leaves fresh unscored unswapped games),
\* GENERATED->IN_PROGRESS and GENERATED|IN_PROGRESS->COMPLETED; a new event
\* starts in DRAFT; the status never leaves COMPLETED.
C7_StatusEdges ==
    [][/\ StatusMovesAlong(DescribedEdges \cup {<<"IN_PROGRESS", "GENERATED">>})
       /\ \A e \in DOMAIN db'.events :
             /\ e \notin DOMAIN db.events => db'.events[e].status = "DRAFT"
             /\ (e \in DOMAIN db.events /\ db'.events[e].status = "GENERATED"
                 /\ db.events[e].status \in {"DRAFT", "IN_PROGRESS"}) =>
                   /\ Len(db'.games[e]) = db'.events[e].courts * db'.events[e].rounds
                   /\ \A i \in 1..Len(db'.games[e]) :
                         db'.games[e][i].result = "UNSET" /\ ~db'.games[e][i].swapped]_vars

\* an event was completed and another one is GENERATED under a clock-derived
\* seed
C7_Witness ==
    /\ gpc = "off"
    /\ \E e1, e2 \in DOMAIN db.events :
          /\ db.events[e1].status = "COMPLETED"
          /\ db.events[e2].status = "GENERATED"
          /\ db.events[e2].generation_meta[1].seed_used \in ClockSeeds

Rejected(r) == r.error = "BadRequest" /\ r.db = db

\* C8: complete on a DRAFT or COMPLETED event, and generate, swap or delete
\* on a COMPLETED event, fail with BadRequest and leave the database (status,
\* games, ratings, stats, rating updates) as it was; delete succeeds on a
\* DRAFT, GENERATED or IN_PROGRESS event.
C8_IllegalOperationsRejected ==
    gpc = "off" =>
    \A e \in DOMAIN db.events :
        /\ db.events[e].status \in {"DRAFT", "COMPLETED"} =>
              Rejected(complete_event(db, e))
        /\ db.events[e].status = "COMPLETED" =>
              /\ \A sd \in {NoSeed} \cup ClockSeeds :
                    /\ Rejected(generate_schedule(db, e, sd # NoSeed, sd, rng))
                    /\ generate_schedule(db, e, sd # NoSeed, sd, rng).rng = rng
              /\ \A round_index \in 0..2, p1, p2 \in DOMAIN db.group_players :
                    Rejected(swap_players(db, e, round_index, p1, p2))
              /\ Rejected(delete_event(db, e))
        /\ db.events[e].status \in {"DRAFT", "GENERATED", "IN_PROGRESS"} =>
              /\ delete_event(db, e).error = "none"
              /\ e \notin DOMAIN delete_event(db, e).db.events
              /\ e \notin DOMAIN delete_event(db, e).db.games

\* a COMPLETED event with rating updates next to a DRAFT one: the illegal
\* requests are refused on both
C8_Witness ==
    /\ gpc = "off"
    /\ \E e1, e2 \in DOMAIN db.events :
          /\ db.events[e1].status = "COMPLETED"
          /\ db.events[e2].status = "DRAFT"
          /\ \E u \in DOMAIN db.rating_updates : u.event_id = e1
          /\ complete_event(db, e2).error = "BadRequest"
          /\ delete_event(db, e1).error = "BadRequest"
          /\ delete_event(db, e2).error = "none"

\* the rating-update rows of (event, player), with their multiplicities
RecordsOf(d, e, pid) ==
    {u \in DOMAIN d.rating_updates : u.event_id = e /\ u.group_player_id = pid}

\* the effect of completing event e, between the database d before and d2
\* after: the players of its scored games get the engine's delta, the stats
\* of those games and one record; everybody else nothing
CompleteEffect(d, d2, e) ==
    LET rows == d.games[e]
        scored == {i \in 1..Len(rows) : rows[i].result # "UNSET"}
        in_scored(pid) == {i \in scored : pid \in RowPlayers(rows[i])}
        won(pid, i) ==
            \/ rows[i].result = "TEAM1_WIN" /\ pid \in {rows[i].team1_p1, rows[i].team1_p2}
            \/ rows[i].result = "TEAM2_WIN" /\ pid \in {rows[i].team2_p1, rows[i].team2_p2}
        lost(pid, i) ==
            \/ rows[i].result = "TEAM1_WIN" /\ pid \in {rows[i].team2_p1, rows[i].team2_p2}
            \/ rows[i].result = "TEAM2_WIN" /\ pid \in {rows[i].team1_p1, rows[i].team1_p2}
        pre == [pid \in DOMAIN d.group_players |-> d.group_players[pid].rating]
        batch == SelectSeq([i \in 1..Len(rows) |-> ToGameForRating(rows[i], pre)],
                           LAMBDA g : g.result # "UNSET")
        deltas == calculate_deltas(d.settings.ratingSystem, d.settings.kFactor,
                                   d.settings.eloConst, batch, pre)
    IN  \A pid \in DOMAIN d.group_players :
          IF in_scored(pid) # {}
          THEN /\ d2.group_players[pid].rating = pre[pid] + deltas[pid].delta
               /\ d2.group_players[pid].games_played =
                     d.group_players[pid].games_played + Cardinality(in_scored(pid))
               /\ d2.group_players[pid].wins =
                     d.group_players[pid].wins
                     + Cardinality({i \in in_scored(pid) : won(pid, i)})
               /\ d2.group_players[pid].losses =
                     d.group_players[pid].losses
                     + Cardinality({i \in in_scored(pid) : lost(pid, i)})
               /\ d2.group_players[pid].ties =
                     d.group_players[pid].ties
                     + Cardinality({i \in in_scored(pid) : rows[i].result = "TIE"})
               /\ Cardinality(RecordsOf(d2, e, pid)) = 1
               /\ \A u \in RecordsOf(d2, e, pid) :
                     /\ d2.rating_updates[u] = 1
                     /\ u.rating_before = pre[pid]
                     /\ u.delta = deltas[pid].delta
                     /\ u.rating_after - u.rating_before = u.delta
          ELSE /\ d2.group_players[pid] = d.group_players[pid]
               /\ RecordsOf(d2, e, pid) = {}

\* C9: completing a GENERATED or IN_PROGRESS event affects exactly the players
\* of its scored games: rating = pre-event rating + engine delta, stats grow
\* by their scored games, exactly one rating-update record each with
\* rating_after - rating_before = delta; every other player keeps rating and
\* stats and gets no record.
C9_CompleteAffectsScoredPlayers ==
    [][\A e \in DOMAIN db.events :
          (/\ db.events[e].status \in {"GENERATED", "IN_PROGRESS"}
           /\ e \in DOMAIN db'.events
           /\ db'.events[e].status = "COMPLETED") => CompleteEffect(db, db', e)]_vars

\* a completed two-round event with one game scored and one not, whose
\* players each have their record, next to a member who did not take part
C9_Witness ==
    /\ gpc = "off"
    /\ \E e \in DOMAIN db.events :
          /\ db.events[e].status = "COMPLETED"
          /\ \E i, j \in 1..Len(db.games[e]) :
                db.games[e][i].result = "TEAM1_WIN" /\ db.games[e][j].result = "UNSET"
          /\ \A pid \in RowPlayers(db.games[e][1]) :
                /\ Cardinality(RecordsOf(db, e, pid)) = 1
                /\ db.group_players[pid].games_played = 1
          /\ \E pid \in DOMAIN db.group_players :
                /\ pid \notin RowPlayers(db.games[e][1])
                /\ RecordsOf(db, e, pid) = {}
                /\ db.group_players[pid].games_played = 0

\* C10: recalculate run twice in a row leaves every player's rating and
\* stats, every game's team1_elo/team2_elo and the set of rating-update
\* records as they were after the first run.
C10_ReplayIdempotent ==
    gpc = "off" =>
    LET once == recalculate_ratings(db).db
        twice == recalculate_ratings(once).db
    IN  /\ \A pid \in DOMAIN db.group_players :
              /\ twice.group_players[pid].rating = once.group_players[pid].rating
              /\ twice.group_players[pid].games_played = once.group_players[pid].games_played
              /\ twice.group_players[pid].wins = once.group_players[pid].wins
              /\ twice.group_players[pid].losses = once.group_players[pid].losses
              /\ twice.group_players[pid].ties = once.group_players[pid].ties
        /\ \A e \in DOMAIN once.games : \A i \in 1..Len(once.games[e]) :
              /\ twice.games[e][i].team1_elo = once.games[e][i].team1_elo
              /\ twice.games[e][i].team2_elo = once.games[e][i].team2_elo
        /\ BagToSet(twice.rating_updates) = BagToSet(once.rating_updates)

\* two completed events with scored games, in a database the first replay
\* changes (ratings, snapshots or records) and fills with records
C10_Witness ==
    /\ gpc = "off"
    /\ \E e1, e2 \in DOMAIN db.events :
          /\ e1 # e2
          /\ db.events[e1].status = "COMPLETED" /\ db.events[e2].status = "COMPLETED"
          /\ \E i \in 1..Len(db.games[e1]) : db.games[e1][i].result # "UNSET"
          /\ \E i \in 1..Len(db.games[e2]) : db.games[e2][i].result # "UNSET"
    /\ recalculate_ratings(db).db # db
    /\ BagToSet(recalculate_ratings(db).db.rating_updates) # {}

(***************************************************************************)
(* Properties of the replay.  The ratings the replay must pass through are *)
(* stated on their own: the reset ratings plus the deltas of the rounds in *)
(* chronological order.                                                    *)
(***************************************************************************)

CompletedEvents(d) == {e \in DOMAIN d.events : d.events[e].status = "COMPLETED"}

\* event a comes before event b: (starts_at, created_at) ascending
EarlierEvent(d, a, b) ==
    \/ d.events[a].starts_at < d.events[b].starts_at
    \/ /\ d.events[a].starts_at = d.events[b].starts_at
       /\ d.events[a].created_at < d.events[b].created_at

\* the rounds that carry a scored game, as <<event, round_index>>
ScoredRounds(d) ==
    UNION {{<<e, d.games[e][i].round_index>> :
               i \in {j \in 1..Len(d.games[e]) : d.games[e][j].result # "UNSET"}} :
           e \in CompletedEvents(d)}

\* round s is rated before round t
RoundBefore(d, s, t) ==
    EarlierEvent(d, s[1], t[1]) \/ (s[1] = t[1] /\ s[2] < t[2])

\* the ratings after the rounds of S, a set of rounds closed under RoundBefore
RECURSIVE RatingsAfterRounds(_, _)
RatingsAfterRounds(d, S) ==
    IF S = {}
    THEN [pid \in DOMAIN d.group_players |->
             ReplayInitialRating(d.settings, d.group_players[pid].skill_level)]
    ELSE LET last == CHOOSE s \in S : \A o \in S \ {s} : RoundBefore(d, o, s)
             before == RatingsAfterRounds(d, S \ {last})
             rows == SelectSeq(d.games[last[1]],
                         LAMBDA g : g.round_index = last[2] /\ g.result # "UNSET")
             deltas == calculate_deltas(d.settings.ratingSystem, d.settings.kFactor,
                           d.settings.eloConst,
                           [i \in 1..Len(rows) |-> ToGameForRating(rows[i], before)],
                           before)
         IN  [pid \in DOMAIN before |->
                 IF pid \in DOMAIN deltas THEN before[pid] + deltas[pid].delta
                 ELSE before[pid]]

\* the ratings as round t starts
RatingsBeforeRound(d, t) ==
    RatingsAfterRounds(d, {s \in ScoredRounds(d) : RoundBefore(d, s, t)})

\* game i of event e carries the team ratings of the start of its round
SnapshotOfRoundStart(d, d2, e, i) ==
    LET row == d2.games[e][i]
        before == RatingsBeforeRound(d, <<e, row.round_index>>)
    IN  /\ row.team1_elo = before[row.team1_p1] + before[row.team1_p2]
        /\ row.team2_elo = before[row.team2_p1] + before[row.team2_p2]

\* C11 as stated: after a replay every game of every round of every COMPLETED
\* event carries as team1_elo/team2_elo the mean of its players' ratings
\* as they were when the round started.
C11_EveryGameSnapshot ==
    gpc = "off" =>
    \A e \in CompletedEvents(db) : \A i \in 1..Len(db.games[e]) :
        SnapshotOfRoundStart(db, recalculate_ratings(db).db, e, i)

\* C11 (amended): after a replay every scored game of every COMPLETED event
\* carries as team1_elo/team2_elo the mean of its players' ratings as they
\* were when its round started (after all earlier rounds and events, before
\* any delta of the round); a game without a result keeps the team ratings it
\* had before the replay.
C11_ScoredGameSnapshot ==
    gpc = "off" =>
    \A e \in CompletedEvents(db) : \A i \in 1..Len(db.games[e]) :
        IF db.games[e][i].result # "UNSET"
        THEN SnapshotOfRoundStart(db, recalculate_ratings(db).db, e, i)
        ELSE /\ recalculate_ratings(db).db.games[e][i].team1_elo = db.games[e][i].team1_elo
             /\ recalculate_ratings(db).db.games[e][i].team2_elo = db.games[e][i].team2_elo

\* a replayed two-round event with both rounds scored: the second round's
\* game carries the ratings left by the first round, which differ from the
\* reset ratings
C11_Witness ==
    /\ gpc = "off"
    /\ recalculate_ratings(db).db = db
    /\ \E e \in CompletedEvents(db) :
          /\ Len(db.games[e]) = 2
          /\ db.games[e][1].result = "TEAM1_WIN" /\ db.games[e][2].result = "TEAM2_WIN"
          /\ SnapshotOfRoundStart(db, db, e, 2)
          /\ db.games[e][2].team1_elo #
                 RatingsAfterRounds(db, {})[db.games[e][2].team1_p1]
                 + RatingsAfterRounds(db, {})[db.games[e][2].team1_p2]

\* the rounds rated before event e starts, and up to its end
RoundsBeforeEvent(d, e) == {s \in ScoredRounds(d) : EarlierEvent(d, s[1], e)}
RoundsThroughEvent(d, e) ==
    {s \in ScoredRounds(d) : EarlierEvent(d, s[1], e) \/ s[1] = e}

\* C12: the replay rates the COMPLETED events in ascending (starts_at,
\* created_at) order and the rounds of an event in ascending round_index:
\* the record of an event carries, as rating_before, the reset rating plus
\* the deltas of all rounds of the earlier events and, as rating_after, that
\* plus the deltas of the event's own rounds in order (no record where the
\* two are equal), and the final ratings are those after the last round.
C12_ReplayChronological ==
    gpc = "off" =>
    LET d2 == recalculate_ratings(db).db
    IN  /\ \A pid \in DOMAIN db.group_players :
              d2.group_players[pid].rating =
                  RatingsAfterRounds(db, ScoredRounds(db))[pid]
        /\ \A e \in CompletedEvents(db) : \A pid \in DOMAIN db.group_players :
              LET before == RatingsAfterRounds(db, RoundsBeforeEvent(db, e))[pid]
                  after == RatingsAfterRounds(db, RoundsThroughEvent(db, e))[pid]
              IN  IF after # before
                  THEN /\ Cardinality(RecordsOf(d2, e, pid)) = 1
                       /\ \A u \in RecordsOf(d2, e, pid) :
                             /\ d2.rating_updates[u] = 1
                             /\ u.rating_before = before
                             /\ u.rating_after = after
                  ELSE RecordsOf(d2, e, pid) = {}

\* a replayed group with two scored COMPLETED events on one date, the later
\* created one starting from ratings the earlier one changed; and the
\* creation order is the only thing that orders them
C12_Witness ==
    /\ gpc = "off"
    /\ recalculate_ratings(db).db = db
    /\ \E e1, e2 \in CompletedEvents(db) :
          /\ db.events[e1].starts_at = db.events[e2].starts_at
          /\ db.events[e1].created_at < db.events[e2].created_at
          /\ \E pid \in DOMAIN db.group_players :
                /\ RecordsOf(db, e1, pid) # {}
                /\ \E u \in RecordsOf(db, e2, pid) :
                      /\ u.rating_before #
                            ReplayInitialRating(db.settings, db.group_players[pid].skill_level)
                      /\ u.rating_after # u.rating_before

\* the scores or the result of a game of event e differ between d and d2
ScoreEdited(d, d2, e) ==
    /\ e \in DOMAIN d2.events
    /\ Len(d2.games[e]) = Len(d.games[e])
    /\ \E i \in 1..Len(d.games[e]) :
          \/ d2.games[e][i].score_team1 # d.games[e][i].score_team1
          \/ d2.games[e][i].score_team2 # d.games[e][i].score_team2
          \/ d2.games[e][i].result # d.games[e][i].result

\* the scored games of the COMPLETED events of d that pid played, as
\* <<event, position>>
PlayedGames(d, pid) ==
    UNION {{<<e, i>> : i \in {j \in 1..Len(d.games[e]) :
                                /\ d.games[e][j].result # "UNSET"
                                /\ pid \in RowPlayers(d.games[e][j])}} :
           e \in CompletedEvents(d)}

\* d is what a full replay over its own scores gives: ratings, statistics
\* and records
Reconciled(d) ==
    /\ recalculate_ratings(d).db = d
    /\ \A pid \in DOMAIN d.group_players :
          /\ d.group_players[pid].rating = RatingsAfterRounds(d, ScoredRounds(d))[pid]
          /\ d.group_players[pid].games_played = Cardinality(PlayedGames(d, pid))
          /\ d.group_players[pid].wins + d.group_players[pid].losses
             + d.group_players[pid].ties = d.group_players[pid].games_played
          /\ d.group_players[pid].ties =
                Cardinality({g \in PlayedGames(d, pid) : d.games[g[1]][g[2]].result = "TIE"})
    /\ \A u \in DOMAIN d.rating_updates :
          /\ u.event_id \in CompletedEvents(d)
          /\ u.rating_before =
                RatingsAfterRounds(d, RoundsBeforeEvent(d, u.event_id))[u.group_player_id]
          /\ u.rating_after =
                RatingsAfterRounds(d, RoundsThroughEvent(d, u.event_id))[u.group_player_id]

\* C13: a step that edits a score of a game of a COMPLETED event leaves the
\* event COMPLETED, changes no other event's scores or status, and leaves
\* every rating, every statistic and every rating-update record of the group
\* equal to a full replay over the edited scores.
C13_EditAfterCompleteReconciles ==
    [][\A e \in CompletedEvents(db) :
          ScoreEdited(db, db', e) =>
              /\ db'.events = db.events
              /\ \A o \in DOMAIN db.events \ {e} : ~ScoreEdited(db, db', o)
              /\ Reconciled(db')]_vars

\* an edit on the earlier of two COMPLETED events that changes the game's
\* result and, through the replay, the record of a player of the later event
C13_Witness ==
    /\ gpc = "off"
    /\ \E e1, e2 \in CompletedEvents(db) :
          /\ EarlierEvent(db, e1, e2)
          /\ \E sc \in Scores(1) :
                LET r == update_score(db, <<e1, 1>>, sc[1], sc[2])
                IN  /\ r.error = "none"
                    /\ ScoreEdited(db, r.db, e1)
                    /\ r.db.events[e1].status = "COMPLETED"
                    /\ Reconciled(r.db)
                    /\ \E pid \in DOMAIN db.group_players :
                          /\ RecordsOf(r.db, e2, pid) # {}
                          /\ RecordsOf(r.db, e2, pid) # RecordsOf(db, e2, pid)

\* the ratings the replay computes for event e alone, started from the
\* ratings stored in d
ReplayOfEvent(d, e) ==
    ReplayEvent(d, [current_ratings |-> [pid \in DOMAIN d.group_players |->
                                            d.group_players[pid].rating],
                    player_stats |-> [pid \in DOMAIN d.group_players |-> ZeroStats],
                    games |-> d.games,
                    rating_updates |-> EmptyBag], e).current_ratings

\* the rounds of event e with a scored game
ScoredRoundsOf(d, e) ==
    {d.games[e][i].round_index :
        i \in {j \in 1..Len(d.games[e]) : d.games[e][j].result # "UNSET"}}

\* C14: completing an event gives every player the rating the replay
\* computes for that event from the same pre-event ratings, whatever the
\* number of rounds.
C14_LiveEqualsReplay ==
    gpc = "off" =>
    \A e \in DOMAIN db.events :
        db.events[e].status \in {"GENERATED", "IN_PROGRESS"} =>
            \A pid \in DOMAIN db.group_players :
                complete_event(db, e).db.group_players[pid].rating
                    = ReplayOfEvent(db, e)[pid]

\* the two paths agree on the events with at most one scored round
C14_LiveEqualsReplayOneRound ==
    gpc = "off" =>
    \A e \in DOMAIN db.events :
        (/\ db.events[e].status \in {"GENERATED", "IN_PROGRESS"}
         /\ Cardinality(ScoredRoundsOf(db, e)) <= 1) =>
            \A pid \in DOMAIN db.group_players :
                complete_event(db, e).db.group_players[pid].rating
                    = ReplayOfEvent(db, e)[pid]

(***************************************************************************)
(* Specification SpecRequests: requests served concurrently.  get_db hands *)
(* every request a pooled connection; no handler opens a transaction and   *)
(* none takes a lock, so every statement commits on its own and the        *)
(* statements of two requests interleave at every await.  A call's locals  *)
(* are what it has read so far.  Any statement may fail (the connection    *)
(* drops); what the call wrote before stays written.                       *)
(***************************************************************************)

CallIds == {1, 2}

IdleCall ==
    [op |-> "none", pc |-> "idle", event_id |-> 0, games |-> <<>>, batch |-> <<>>,
     current_ratings |-> <<>>, deltas |-> <<>>, todo |-> <<>>,
     player_stats |-> <<>>, events |-> <<>>, rounds |-> {}, before |-> <<>>]

\* the database after one more request was served
Serve(d, req) ==
    IF req.op = "create"
      THEN create_event(d, req.participant_ids, req.courts, req.rounds, req.starts_at).db
    ELSE IF req.op = "generate"
      THEN generate_schedule(d, req.event_id, FALSE, NoSeed, 7).db
    ELSE IF req.op = "score"
      THEN update_score(d, <<req.event_id, 1>>, req.score_team1, req.score_team2).db
    ELSE complete_event(d, req.event_id).db

RECURSIVE Served(_, _)
Served(d, reqs) ==
    IF reqs = <<>> THEN d ELSE Served(Serve(d, Head(reqs)), Tail(reqs))

\* the requests served one after the other before the concurrent ones
\* arrive: they leave one COMPLETED event and a second one IN_PROGRESS, each
\* with its game scored
EarlierRequests ==
    <<[op |-> "create", participant_ids |-> <<1, 2, 3, 4>>, courts |-> 1, rounds |-> 1,
       starts_at |-> 1],
      [op |-> "generate", event_id |-> 1],
      [op |-> "score", event_id |-> 1, score_team1 |-> 11, score_team2 |-> 5],
      [op |-> "complete", event_id |-> 1],
      [op |-> "create", participant_ids |-> <<2, 3, 4, 5>>, courts |-> 1, rounds |-> 1,
       starts_at |-> 2],
      [op |-> "generate", event_id |-> 2],
      [op |-> "score", event_id |-> 2, score_team1 |-> 5, score_team2 |-> 11]>>

RequestsDb(ratingSystem) == Served(InitDb(ratingSystem), EarlierRequests)

InitRequests ==
    /\ NoReads
    /\ gin = <<>>
    /\ gres1 = NoResult
    /\ gres2 = NoResult
    /\ gpc = "off"
    /\ rng = 7
    /\ db \in {RequestsDb(rs) : rs \in {"SERIOUS_ELO", "RACS_ELO"}}
    /\ calls = [c \in CallIds |-> IdleCall]

\* the call moves on with new locals
Goto(c, pc, locals) ==
    calls' = [calls EXCEPT ![c] = [locals EXCEPT !.pc = pc]]

\* POST /events/{id}/complete arrives
StartComplete(c) ==
    /\ calls[c].pc = "idle"
    /\ \E event_id \in DOMAIN db.events :
          Goto(c, "check", [IdleCall EXCEPT !.op = "complete", !.event_id = event_id])
    /\ UNCHANGED <<readvars, gin, gres1, gres2, gpc, rng, db>>

\* events_repo.get_by_id and the status guards
CompleteCheck(c) ==
    /\ calls[c].op = "complete" /\ calls[c].pc = "check"
    /\ IF complete_event_guard(db.events[calls[c].event_id])
       THEN Goto(c, "rejected", calls[c])
       ELSE Goto(c, "games", calls[c])
    /\ UNCHANGED <<readvars, gin, gres1, gres2, gpc, rng, db>>

\* games_repo.list_by_event_with_players: the rows with the ratings joined
CompleteLoadGames(c) ==
    /\ calls[c].op = "complete" /\ calls[c].pc = "games"
    /\ LET joined == [pid \in DOMAIN db.group_players |-> db.group_players[pid].rating]
           rows == db.games[calls[c].event_id]
       IN  Goto(c, "participants",
                [calls[c] EXCEPT
                   !.games = rows,
                   !.batch = [i \in 1..Len(rows) |-> ToGameForRating(rows[i], joined)]])
    /\ UNCHANGED <<readvars, gin, gres1, gres2, gpc, rng, db>>

\* the players of a batch in the order the engines meet them
DeltaOrder(batch) ==
    LET at(k) == IF (k - 1) % 4 < 2
                 THEN batch[((k - 1) \div 4) + 1].team1[((k - 1) % 4) + 1].player_id
                 ELSE batch[((k - 1) \div 4) + 1].team2[((k - 1) % 4) - 1].player_id
    IN  Dedup([k \in 1..(4 * Len(batch)) |-> at(k)])

\* events_repo.get_participants, then the deltas of the batch
CompleteLoadParticipants(c) ==
    /\ calls[c].op = "complete" /\ calls[c].pc = "participants"
    /\ LET participants == db.events[calls[c].event_id].participants
           current_ratings == [pid \in {participants[i] : i \in 1..Len(participants)} |->
                                  db.group_players[pid].rating]
           batch == SelectSeq(calls[c].batch, LAMBDA g : g.result # "UNSET")
           deltas == calculate_deltas(db.settings.ratingSystem, db.settings.kFactor,
                                      db.settings.eloConst, batch, current_ratings)
       IN  Goto(c, "apply",
                [calls[c] EXCEPT
                   !.current_ratings = current_ratings,
                   !.deltas = deltas,
                   !.batch = <<>>,
                   !.todo = SelectSeq(DeltaOrder(batch),
                                LAMBDA pid : pid \in complete_event_updated(deltas, participants))])
    /\ UNCHANGED <<readvars, gin, gres1, gres2, gpc, rng, db>>

\* group_players_repo.update_rating for the next player of deltas.items()
CompleteUpdateRating(c) ==
    /\ calls[c].op = "complete" /\ calls[c].pc = "apply"
    /\ calls[c].todo # <<>>
    /\ LET pid == Head(calls[c].todo)
           n == CountStats(calls[c].games, pid)
       IN  db' = [db EXCEPT !.group_players[pid] =
                     [@ EXCEPT !.rating = calls[c].deltas[pid].rating_after,
                               !.games_played = @ + n.games,
                               !.wins = @ + n.wins,
                               !.losses = @ + n.losses,
                               !.ties = @ + n.ties]]
    /\ Goto(c, "apply", [calls[c] EXCEPT !.todo = Tail(@)])
    /\ UNCHANGED <<readvars, gin, gres1, gres2, gpc, rng>>

\* the rows complete_event hands to rating_updates_repo.create_many
CompleteRecordRows(call, system) ==
    {[event_id |-> call.event_id, group_player_id |-> pid,
      rating_before |-> call.deltas[pid].rating_before,
      rating_after |-> call.deltas[pid].rating_after,
      delta |-> call.deltas[pid].delta,
      system |-> system] :
     pid \in (DOMAIN call.deltas) \cap DOMAIN call.current_ratings}

\* rating_updates_repo.create_many
CompleteRecords(c) ==
    /\ calls[c].op = "complete" /\ calls[c].pc = "apply"
    /\ calls[c].todo = <<>>
    /\ db' = [db EXCEPT !.rating_updates =
                 @ (+) SetToBag(CompleteRecordRows(calls[c], db.settings.ratingSystem))]
    /\ Goto(c, "status", calls[c])
    /\ UNCHANGED <<readvars, gin, gres1, gres2, gpc, rng>>

\* events_repo.update_status(event_id, "COMPLETED")
CompleteStatus(c) ==
    /\ calls[c].op = "complete" /\ calls[c].pc = "status"
    /\ db' = [db EXCEPT !.events[calls[c].event_id].status = "COMPLETED"]
    /\ Goto(c, "done", calls[c])
    /\ UNCHANGED <<readvars, gin, gres1, gres2, gpc, rng>>

\* POST /groups/{id}/recalculate-ratings arrives
StartRecalculate(c) ==
    /\ calls[c].pc = "idle"
    /\ Goto(c, "players", [IdleCall EXCEPT !.op = "recalculate"])
    /\ UNCHANGED <<readvars, gin, gres1, gres2, gpc, rng, db>>

\* "SELECT id, skill_level FROM group_players": the initial ratings
RecalcLoadPlayers(c) ==
    /\ calls[c].op = "recalculate" /\ calls[c].pc = "players"
    /\ Goto(c, "reset",
            [calls[c] EXCEPT
               !.current_ratings = replay_start_ratings(db),
               !.player_stats = [pid \in DOMAIN db.group_players |-> ZeroStats]])
    /\ UNCHANGED <<readvars, gin, gres1, gres2, gpc, rng, db>>

\* "UPDATE group_players SET wins = 0, losses = 0, ties = 0, games_played = 0"
RecalcResetStats(c) ==
    /\ calls[c].op = "recalculate" /\ calls[c].pc = "reset"
    /\ db' = [db EXCEPT !.group_players =
                 [pid \in DOMAIN @ |->
                     [@[pid] EXCEPT !.games_played = 0, !.wins = 0,
                                    !.losses = 0, !.ties = 0]]]
    /\ Goto(c, "events", calls[c])
    /\ UNCHANGED <<readvars, gin, gres1, gres2, gpc, rng>>

\* the SELECT of the COMPLETED events in chronological order
RecalcLoadEvents(c) ==
    /\ calls[c].op = "recalculate" /\ calls[c].pc = "events"
    /\ Goto(c, "delete", [calls[c] EXCEPT !.events = completed_events(db)])
    /\ UNCHANGED <<readvars, gin, gres1, gres2, gpc, rng, db>>

\* the head of "for event in completed_events", or the final sweep once the
\* events are exhausted
NextEvent(locals) ==
    IF locals.events = <<>>
    THEN [locals EXCEPT !.pc = "final", !.games = <<>>, !.before = <<>>,
                        !.todo = [i \in 1..Len(locals.current_ratings) |-> i]]
    ELSE [locals EXCEPT !.pc = "event", !.event_id = Head(locals.events),
                        !.games = <<>>, !.before = <<>>]

\* "DELETE FROM rating_updates WHERE event_id IN (the group's events)"
RecalcDeleteRecords(c) ==
    /\ calls[c].op = "recalculate" /\ calls[c].pc = "delete"
    /\ db' = [db EXCEPT !.rating_updates =
                 [u \in {v \in DOMAIN @ : v.event_id \notin DOMAIN db.events} |-> @[u]]]
    /\ calls' = [calls EXCEPT ![c] = NextEvent(calls[c])]
    /\ UNCHANGED <<readvars, gin, gres1, gres2, gpc, rng>>

\* the head of "for round_index in sorted(games_by_round.keys())": the games
\* of the next round wait for their snapshot; after the last round the
\* records of the event are written
NextRound(locals) ==
    IF locals.rounds = {} THEN [locals EXCEPT !.pc = "records"]
    ELSE LET r == CHOOSE r \in locals.rounds : \A o \in locals.rounds : r <= o
         IN  [locals EXCEPT
                !.pc = "snapshot",
                !.todo = SelectSeq([i \in 1..Len(locals.games) |-> i],
                             LAMBDA i : /\ locals.games[i].round_index = r
                                        /\ locals.games[i].result # "UNSET")]

\* the SELECT of the event's games; an event without games is passed over
RecalcLoadGames(c) ==
    /\ calls[c].op = "recalculate" /\ calls[c].pc = "event"
    /\ LET rows == db.games[calls[c].event_id]
       IN  calls' = [calls EXCEPT ![c] =
              IF Len(rows) = 0 THEN NextEvent([calls[c] EXCEPT !.events = Tail(@)])
              ELSE NextRound([calls[c] EXCEPT
                      !.games = rows,
                      !.before = calls[c].current_ratings,
                      !.rounds = {rows[i].round_index :
                                     i \in {j \in 1..Len(rows) : rows[j].result # "UNSET"}}])]
    /\ UNCHANGED <<readvars, gin, gres1, gres2, gpc, rng, db>>

\* the round of the replay is finished in memory: deltas, ratings, statistics
RoundDone(settings, locals, round_index) ==
    LET st == ReplayRound(settings,
                  [current_ratings |-> locals.current_ratings,
                   player_stats |-> locals.player_stats, games |-> locals.games],
                  round_index)
    IN  NextRound([locals EXCEPT !.current_ratings = st.current_ratings,
                                 !.player_stats = st.player_stats,
                                 !.rounds = @ \ {round_index}])

\* "UPDATE games SET team1_elo = $1, team2_elo = $2 WHERE id = $3" for the
\* next game of the round; after the round's last game the engine runs
RecalcSnapshot(c) ==
    /\ calls[c].op = "recalculate" /\ calls[c].pc = "snapshot"
    /\ LET i == Head(calls[c].todo)
           row == calls[c].games[i]
           cur == calls[c].current_ratings
           rest == [calls[c] EXCEPT !.todo = Tail(@)]
       IN  /\ db' = [db EXCEPT !.games[calls[c].event_id][i] =
                        [@ EXCEPT !.team1_elo = cur[row.team1_p1] + cur[row.team1_p2],
                                  !.team2_elo = cur[row.team2_p1] + cur[row.team2_p2]]]
           /\ calls' = [calls EXCEPT ![c] =
                 IF rest.todo # <<>> THEN rest
                 ELSE RoundDone(db.settings, rest, row.round_index)]
    /\ UNCHANGED <<readvars, gin, gres1, gres2, gpc, rng>>

\* the rows recalculate_ratings inserts for an event: the players whose
\* rating changed over it
RecalcRecordRows(locals, system) ==
    {[event_id |-> locals.event_id, group_player_id |-> pid,
      rating_before |-> locals.before[pid],
      rating_after |-> locals.current_ratings[pid],
      delta |-> locals.current_ratings[pid] - locals.before[pid],
      system |-> system] :
     pid \in {q \in UNION {RowPlayers(locals.games[i]) : i \in 1..Len(locals.games)} :
                 locals.current_ratings[q] # locals.before[q]}}

\* "INSERT INTO rating_updates ..." for the event
RecalcRecords(c) ==
    /\ calls[c].op = "recalculate" /\ calls[c].pc = "records"
    /\ db' = [db EXCEPT !.rating_updates =
                 @ (+) SetToBag(RecalcRecordRows(calls[c], db.settings.ratingSystem))]
    /\ calls' = [calls EXCEPT ![c] = NextEvent([calls[c] EXCEPT !.events = Tail(@)])]
    /\ UNCHANGED <<readvars, gin, gres1, gres2, gpc, rng>>

\* "Apply final ratings and stats to database", one player per statement
RecalcFinalWrite(c) ==
    /\ calls[c].op = "recalculate" /\ calls[c].pc = "final"
    /\ calls[c].todo # <<>>
    /\ LET pid == Head(calls[c].todo)
           stats == calls[c].player_stats[pid]
       IN  db' = [db EXCEPT !.group_players[pid] =
                     [@ EXCEPT !.rating = calls[c].current_ratings[pid],
                               !.games_played = stats.games, !.wins = stats.wins,
                               !.losses = stats.losses, !.ties = stats.ties]]
    /\ Goto(c, IF Tail(calls[c].todo) = <<>> THEN "done" ELSE "final",
            [calls[c] EXCEPT !.todo = Tail(@)])
    /\ UNCHANGED <<readvars, gin, gres1, gres2, gpc, rng>>

\* a statement raises.  Inside "for event in completed_events" the except
\* clause prints and the loop goes on with the next event; anywhere else the
\* exception ends the request.  Nothing is rolled back.
StatementFails(c) ==
    /\ calls[c].pc \in {"check", "games", "participants", "apply", "status",
                        "players", "reset", "events", "delete", "event",
                        "snapshot", "records", "final"}
    /\ calls' = [calls EXCEPT ![c] =
          IF calls[c].pc \in {"event", "snapshot", "records"}
          THEN NextEvent([calls[c] EXCEPT !.events = Tail(@)])
          ELSE [calls[c] EXCEPT !.pc = "failed"]]
    /\ UNCHANGED <<readvars, gin, gres1, gres2, gpc, rng, db>>

NextRequests ==
    \E c \in CallIds :
        \/ StartComplete(c)
        \/ CompleteCheck(c)
        \/ CompleteLoadGames(c)
        \/ CompleteLoadParticipants(c)
        \/ CompleteUpdateRating(c)
        \/ CompleteRecords(c)
        \/ CompleteStatus(c)
        \/ StartRecalculate(c)
        \/ RecalcLoadPlayers(c)
        \/ RecalcResetStats(c)
        \/ RecalcLoadEvents(c)
        \/ RecalcDeleteRecords(c)
        \/ RecalcLoadGames(c)
        \/ RecalcSnapshot(c)
        \/ RecalcRecords(c)
        \/ RecalcFinalWrite(c)
        \/ StatementFails(c)

SpecRequests == InitRequests /\ [][NextRequests]_vars

(***************************************************************************)
(* Properties of concurrent requests                                       *)
(***************************************************************************)

\* the call has executed a statement and has not ended
Running(c) ==
    calls[c].pc \notin {"idle", "check", "players", "done", "failed", "rejected"}

\* the call has ended without an exception
Ended(c) == calls[c].pc \in {"done", "rejected"}

\* no call executes a statement while another call is between its first and
\* its last statement
NeverInterleaved ==
    \A c \in CallIds, o \in CallIds :
        (c # o /\ calls[c].pc # "idle" /\ calls'[c] # calls[c]) => ~Running(o)

\* two complete calls on one event, both ended without an exception, have
\* applied its deltas, stat increments and records exactly once
CompletedOnce ==
    \A c \in CallIds, o \in CallIds :
        (/\ c # o
         /\ calls[c].op = "complete" /\ calls[o].op = "complete"
         /\ calls[c].event_id = calls[o].event_id
         /\ Ended(c) /\ Ended(o)) =>
            \A pid \in RowPlayers(db.games[calls[c].event_id][1]) :
                /\ db.group_players[pid].games_played = Cardinality(PlayedGames(db, pid))
                /\ Cardinality(RecordsOf(db, calls[c].event_id, pid)) = 1
                /\ \A u \in RecordsOf(db, calls[c].event_id, pid) :
                      db.rating_updates[u] = 1

\* C15: complete and recalculate requests on one group are mutually
\* exclusive: the statements of two overlapping requests never interleave
\* (the later one waits or is rejected), so that two concurrent complete
\* calls on one event apply its deltas, stat increments and records once.
C15_MutuallyExclusive == [][NeverInterleaved]_vars /\ []CompletedOnce

(***************************************************************************)
(* Properties of failing requests                                          *)
(***************************************************************************)

\* the database the calls of SpecRequests start from
StartDb == RequestsDb(db.settings.ratingSystem)

\* call c is the only one that was started and ended with the exception
FailedAlone(c) ==
    /\ calls[c].pc = "failed"
    /\ \A o \in CallIds \ {c} : calls[o].pc = "idle"

\* call c is the only one that was started and returned its response
ReturnedAlone(c) ==
    /\ calls[c].pc = "done"
    /\ \A o \in CallIds \ {c} : calls[o].pc = "idle"

\* a failed call left nothing behind
NoPartialEffect == \A c \in CallIds : FailedAlone(c) => db = StartDb

\* a call that returned applied all of its writes
AllWritesApplied ==
    \A c \in CallIds :
        ReturnedAlone(c) =>
            db = IF calls[c].op = "complete"
                 THEN complete_event(StartDb, calls[c].event_id).db
                 ELSE recalculate_ratings(StartDb).db

\* C16: complete and recalculate are atomic: a call that fails at a
\* persistence step leaves ratings, stats, rating-update records, game
\* snapshots and event status exactly as before the call, and a call that
\* does not fail has applied all of its writes.
C16_Atomic == NoPartialEffect /\ AllWritesApplied

(***************************************************************************)
(* Specification SpecSwaps: the swaps of a two-court event.  The event is  *)
(* created for eight players and generated; then swap requests arrive in   *)
(* any order, for either round, within one game or across the two games    *)
(* of a round.                                                             *)
(***************************************************************************)

\* the group with eight regular members
SwapGroupDb ==
    [InitDb("SERIOUS_ELO") EXCEPT
        !.group_players = [pid \in 1..8 |->
            NewGroupPlayer(Settings("SERIOUS_ELO", 250), "PERMANENT", "NONE")]]

\* the requests served before the swaps: the event is generated, and in one
\* case its first game is scored
SwapPrefixes ==
    LET made == <<[op |-> "create", participant_ids |-> <<1, 2, 3, 4, 5, 6, 7, 8>>,
                   courts |-> 2, rounds |-> 2, starts_at |-> 1],
                  [op |-> "generate", event_id |-> 1]>>
    IN  {made,
         made \o <<[op |-> "score", event_id |-> 1, score_team1 |-> 11, score_team2 |-> 5]>>}

\* the players named in swap requests (9 is in no round) and the rounds (2
\* has no games)
SwapPlayerIds == {1, 2, 6, 7, 9}
SwapRounds == {0, 1, 2}

InitSwaps ==
    /\ NoReads
    /\ gin = <<>>
    /\ gres1 = NoResult
    /\ gres2 = NoResult
    /\ gpc = "off"
    /\ rng = 7
    /\ db \in {Served(SwapGroupDb, reqs) : reqs \in SwapPrefixes}
    /\ calls = <<>>

\* POST /events/{id}/swap
SwapInRound ==
    /\ \E round_index \in SwapRounds, player1_id \in SwapPlayerIds,
          player2_id \in SwapPlayerIds :
          db' = swap_players(db, 1, round_index, player1_id, player2_id).db
    /\ UNCHANGED <<readvars, calls, gin, gres1, gres2, gpc, rng>>

NextSwaps == SwapInRound

SpecSwaps == InitSwaps /\ [][NextSwaps]_vars

(***************************************************************************)
(* Properties of swaps                                                     *)
(***************************************************************************)

\* the (game, position) pairs of the round that hold player_id
Holds(games, round_index, player_id) ==
    {gp \in (1..Len(games)) \X (1..4) :
        /\ games[gp[1]].round_index = round_index
        /\ GetPos(games[gp[1]], gp[2]) = player_id}

\* a games row without its four positions and its swapped mark
RestOfRow(row) ==
    [row EXCEPT !.team1_p1 = 0, !.team1_p2 = 0, !.team2_p1 = 0, !.team2_p2 = 0,
                !.swapped = FALSE]

\* new is old with the positions of player1_id and player2_id in the round
\* exchanged, their games marked, and nothing else changed
SwapExchanged(old, new, round_index, player1_id, player2_id) ==
    /\ Len(new) = Len(old)
    /\ \E a \in Holds(old, round_index, player1_id),
          b \in Holds(old, round_index, player2_id) :
          /\ a # b
          /\ \A gp \in (1..Len(old)) \X (1..4) :
                GetPos(new[gp[1]], gp[2]) =
                    IF gp = a THEN player2_id
                    ELSE IF gp = b THEN player1_id
                    ELSE GetPos(old[gp[1]], gp[2])
          /\ \A i \in 1..Len(old) :
                new[i].swapped = (old[i].swapped \/ i \in {a[1], b[1]})
    /\ \A i \in 1..Len(old) : RestOfRow(new[i]) = RestOfRow(old[i])

\* every round of every generated event holds every participant exactly once
EveryRoundComplete(d) ==
    \A e \in DOMAIN d.events :
        d.games[e] # <<>> =>
            \A round_index \in 0..(d.events[e].rounds - 1) :
                \A pid \in {d.events[e].participants[i] :
                               i \in 1..Len(d.events[e].participants)} :
                    Cardinality(Holds(d.games[e], round_index, pid)) = 1

\* C17: a successful swap exchanges exactly the two positions held by the
\* two players in that round, inside one game or across two games, marks
\* the affected games as swapped and changes no other position, score or
\* game; so every round still holds every participant exactly once.
C17_SwapExchangesTwoPositions ==
    /\ \A round_index \in SwapRounds, player1_id \in SwapPlayerIds,
          player2_id \in SwapPlayerIds :
          LET r == swap_players(db, 1, round_index, player1_id, player2_id)
          IN  r.error = "none" =>
                 /\ SwapExchanged(db.games[1], r.db.games[1],
                                  round_index, player1_id, player2_id)
                 /\ [r.db EXCEPT !.games[1] = db.games[1],
                                  !.events[1].status = db.events[1].status] = db
    /\ EveryRoundComplete(db)

\* round 0 saw a swap across its two games (player 2 now plays in the first
\* game, both games are marked) and round 1 a swap inside its second game
\* only; the first game kept its score
C17_Witness ==
    /\ db.games[1][1].swapped /\ db.games[1][2].swapped
    /\ 2 \in RowPlayers(db.games[1][1])
    /\ db.games[1][4].swapped /\ ~db.games[1][3].swapped
    /\ db.games[1][1].score_team1 = 11

\* the two teammate pairs of a games row
RowPairs(row) == {{row.team1_p1, row.team1_p2}, {row.team2_p1, row.team2_p2}}

\* the pairs teamed in the latest completed event before event_id
PreviousPairs(d, event_id) ==
    UNION {get_teammate_pairs_from_event(d, e) : e \in get_previous_event(d, event_id)}

\* after the swap a game of the round that holds one of the two players has
\* a team that was teamed in the previous event or is teamed in another game
\* of the event
TeammateRepeat(d, event_id, round_index, player1_id, player2_id) ==
    LET rows == d.games[event_id]
        affected == {i \in 1..Len(rows) :
                        /\ rows[i].round_index = round_index
                        /\ RowPlayers(rows[i]) \cap {player1_id, player2_id} # {}}
    IN  \E i \in affected : \E pair \in RowPairs(rows[i]) :
            \/ pair \in PreviousPairs(d, event_id)
            \/ \E j \in (1..Len(rows)) \ {i} : pair \in RowPairs(rows[j])

\* C18: a swap of two players of the round on an event that is not
\* completed always succeeds, and when the teams it leaves contain a
\* teammate repeat (a pair of the previous event, or a pair teamed elsewhere
\* in the event) its SwapResponse carries a non-empty warnings list.
C18_SwapWarnsOfRepeats ==
    \A round_index \in SwapRounds, player1_id \in SwapPlayerIds,
       player2_id \in SwapPlayerIds :
       (/\ player1_id # player2_id
        /\ db.events[1].status # "COMPLETED"
        /\ Holds(db.games[1], round_index, player1_id) # {}
        /\ Holds(db.games[1], round_index, player2_id) # {}) =>
           LET r == swap_players(db, 1, round_index, player1_id, player2_id)
           IN  /\ r.error = "none"
               /\ TeammateRepeat(r.db, 1, round_index, player1_id, player2_id) =>
                     SwapResponse(db, 1, round_index, player1_id, player2_id).warnings # <<>>

\* the first half of C18 alone: such a swap always succeeds
SwapNeverBlocked ==
    \A round_index \in SwapRounds, player1_id \in SwapPlayerIds,
       player2_id \in SwapPlayerIds :
       (/\ player1_id # player2_id
        /\ db.events[1].status # "COMPLETED"
        /\ Holds(db.games[1], round_index, player1_id) # {}
        /\ Holds(db.games[1], round_index, player2_id) # {}) =>
           swap_players(db, 1, round_index, player1_id, player2_id).error = "none"

(***************************************************************************)
(* Specification SpecScores: the scores of one event.  The event is        *)
(* generated with one court and two rounds; then scores are entered,       *)
(* corrected and cleared in any order, one or both at a time, before and   *)
(* after the event is completed.                                           *)
(***************************************************************************)

\* the values of ScoreUpdateRequest.score_team1 and score_team2
ScoreValues == {None, 0, 5, 11}

ScoredEventRequests ==
    <<[op |-> "create", participant_ids |-> <<1, 2, 3, 4>>, courts |-> 1, rounds |-> 2,
       starts_at |-> 1],
      [op |-> "generate", event_id |-> 1]>>

InitScores ==
    /\ NoReads
    /\ gin = <<>>
    /\ gres1 = NoResult
    /\ gres2 = NoResult
    /\ gpc = "off"
    /\ rng = 7
    /\ db \in {Served(InitDb(rs), ScoredEventRequests) : rs \in {"SERIOUS_ELO"}}
    /\ calls = <<>>

\* PATCH /games/{id}/score
ScoreGame ==
    /\ \E pos \in {1, 2}, score_team1 \in ScoreValues, score_team2 \in ScoreValues :
          db' = update_score(db, <<1, pos>>, score_team1, score_team2).db
    /\ UNCHANGED <<readvars, calls, gin, gres1, gres2, gpc, rng>>

\* POST /events/{id}/complete
CompleteScored ==
    /\ db' = complete_event(db, 1).db
    /\ UNCHANGED <<readvars, calls, gin, gres1, gres2, gpc, rng>>

NextScores == ScoreGame \/ CompleteScored

SpecScores == InitScores /\ [][NextScores]_vars

(***************************************************************************)
(* Properties of scores                                                    *)
(***************************************************************************)

BothSet(row) == row.score_team1 # None /\ row.score_team2 # None

\* C19: after any sequence of update_score calls every game's result tag
\* agrees with its stored scores: TEAM1_WIN iff both are set and the first
\* is higher, TEAM2_WIN iff both are set and the second is higher, TIE iff
\* both are set and equal, UNSET iff at least one is null.
C19_ResultMatchesScores ==
    \A e \in DOMAIN db.games : \A i \in 1..Len(db.games[e]) :
        LET row == db.games[e][i]
        IN  /\ row.result = "TEAM1_WIN" <=>
                  (BothSet(row) /\ row.score_team1 > row.score_team2)
            /\ row.result = "TEAM2_WIN" <=>
                  (BothSet(row) /\ row.score_team1 < row.score_team2)
            /\ row.result = "TIE" <=>
                  (BothSet(row) /\ row.score_team1 = row.score_team2)
            /\ row.result = "UNSET" <=> ~BothSet(row)

\* a completed event whose first game holds one score only and whose second
\* game is a tie
C19_Witness ==
    /\ db.events[1].status = "COMPLETED"
    /\ db.games[1][1].score_team1 = 5 /\ db.games[1][1].score_team2 = None
    /\ db.games[1][1].result = "UNSET"
    /\ db.games[1][2].score_team1 = 11 /\ db.games[1][2].result = "TIE"

(***************************************************************************)
(* Properties of the event status                                          *)
(***************************************************************************)

Playing(d, e) == e \in DOMAIN d.events /\ d.events[e].status \in {"GENERATED", "IN_PROGRESS"}

\* C20: a GENERATED event becomes IN_PROGRESS at its first score entry or
\* its first successful swap; later score entries and swaps leave it
\* IN_PROGRESS; a rejected swap (player not in the round, no games in the
\* round) leaves the status as it was.
C20_FirstScoreOrSwapStarts ==
    \A e \in EventIds :
        Playing(db, e) =>
            /\ \A req \in SwapRequests :
                  LET r == swap_players(db, e, req[1], req[2], req[3])
                  IN  r.db.events[e].status =
                          IF r.error = "none" THEN "IN_PROGRESS" ELSE db.events[e].status
            /\ \A pos \in {1, 2} : \A sc \in Scores(pos) :
                  LET r == update_score(db, <<e, pos>>, sc[1], sc[2])
                  IN  r.db.events[e].status =
                          IF r.error = "none" THEN "IN_PROGRESS" ELSE db.events[e].status

\* an event that a swap alone has moved to IN_PROGRESS, while a swap naming
\* a player that is not in the round is rejected
C20_Witness ==
    \E e \in EventIds :
        /\ e \in DOMAIN db.events /\ db.events[e].status = "IN_PROGRESS"
        /\ \A i \in 1..Len(db.games[e]) : db.games[e][i].score_team2 = None
        /\ \E i \in 1..Len(db.games[e]) : db.games[e][i].swapped
        /\ swap_players(db, e, 0, 1, 5).error = "BadRequest"

(***************************************************************************)
(* Properties of the generator's failures (checked under SpecGen)          *)
(***************************************************************************)

\* the results of the calls made so far
RanResults == {res \in GenResults : res.error_message # "not run"}

\* four players on one court, the previous-event rule on, and the previous
\* event teamed player 1 with each of the others
OverConstrained ==
    /\ Len(gin.players) = 4 /\ gin.courts = 1
    /\ gin.config.no_repeat_teammate_from_previous_event
    /\ {{1, 2}, {1, 3}, {1, 4}} \subseteq gin.previous_teammate_pairs

\* some split of the players into two teams is within the configured
\* tolerance
SplitWithinConfigured ==
    _generate_all_valid_matches(gin.players, gin.config.elo_diff) # <<>>

FailedOnHardConstraints(res) ==
    /\ ~res.raised /\ ~res.success /\ res.games = <<>>
    /\ res.error_message = "hard_constraints"
    /\ res.metadata.relax_iterations = 0
    /\ res.metadata.elo_diff_used = res.metadata.elo_diff_configured

\* C21 as stated: over-constrained input, with any ratings, fails with the
\* hard-constraint error, relax_iterations = 0 and elo_diff_used =
\* elo_diff_configured, also when auto_relax_elo_diff is on.
C21_OverConstrainedNeverRelaxes ==
    OverConstrained => \A res \in RanResults : FailedOnHardConstraints(res)

\* C21: over-constrained input always fails without games.  When some split
\* of the four players is within the configured tolerance it fails with the
\* hard-constraint error, relax_iterations = 0 and elo_diff_used =
\* elo_diff_configured, also when auto_relax_elo_diff is on.  When no split
\* is, the first attempt fails on ratings: with auto_relax_elo_diff the
\* tolerance is relaxed at least once before the hard-constraint error or
\* the maximum is reached, without it the rating error is returned.
C21_OverConstrainedFails ==
    OverConstrained =>
        \A res \in RanResults :
            /\ ~res.raised /\ ~res.success /\ res.games = <<>>
            /\ SplitWithinConfigured => FailedOnHardConstraints(res)
            /\ (~SplitWithinConfigured /\ gin.config.auto_relax_elo_diff) =>
                  /\ res.metadata.relax_iterations >= 1
                  /\ res.metadata.elo_diff_used > res.metadata.elo_diff_configured
                  /\ res.error_message \in {"hard_constraints", "max_elo_diff_exceeded"}
            /\ (~SplitWithinConfigured /\ ~gin.config.auto_relax_elo_diff) =>
                  /\ res.metadata.relax_iterations = 0
                  /\ res.error_message = "rating_constraints"

\* an over-constrained call with auto_relax_elo_diff on and a split within
\* the configured tolerance has failed
C21_Witness ==
    /\ OverConstrained /\ SplitWithinConfigured /\ gin.config.auto_relax_elo_diff
    /\ gpc = "once" /\ FailedOnHardConstraints(gres1)

\* the call of test_auto_relax_records_metadata: the spread population on
\* two courts for two rounds, tolerance 0.01 relaxed by 0.05 up to 0.5
RatingForced ==
    /\ gin.players = Players8b /\ gin.courts = 2 /\ gin.rounds = 2
    /\ gin.config.elo_diff = 10 /\ gin.config.auto_relax_elo_diff
    /\ gin.config.auto_relax_step = 50 /\ gin.config.auto_relax_max_elo_diff = 500

C23_WrongSizeRejected ==
    \A res \in RanResults :
        IF Len(gin.players) # 4 * gin.courts
        THEN /\ res.raised /\ res.error_message = "ValueError"
             /\ ~res.success /\ res.games = <<>>
             /\ res.metadata.attempts = 0
             /\ res.rng = 7
        ELSE ~res.raised /\ res.metadata.attempts >= 1

\* both calls were rejected, for too few players or for too many
C23_Witness ==
    /\ gpc = "twice" /\ gres1.raised /\ gres2.raised
    /\ Len(gin.players) # 4 * gin.courts

(***************************************************************************)
(* Properties of create_event (checked under SpecEvents)                   *)
(***************************************************************************)

\* the participant id lists of the requests tried in every state, for one
\* court: four members, a member named twice, too few, too many, a stranger
ParticipantLists ==
    {<<1, 2, 3, 4>>, <<1, 1, 2, 3>>, <<1, 2, 3>>, <<1, 2, 3, 4, 5>>, <<1, 2, 3, 9>>}

\* the list names exactly 4*courts different members of the group
DenotesPlayers(d, participant_ids, courts) ==
    /\ Len(participant_ids) = 4 * courts
    /\ Cardinality(Range(participant_ids)) = 4 * courts
    /\ Range(participant_ids) \subseteq DOMAIN d.group_players

\* C24: every event created by create_event has exactly 4*C distinct
\* participants attached, status DRAFT and no games; a request whose
\* participant id list does not denote exactly 4*C group players is rejected
\* with BadRequest and creates no event and no participant row.
C24_CreatedEventHasAllParticipants ==
    db.next_event_id \in EventIds =>
        \A participant_ids \in ParticipantLists :
            LET r == create_event(db, participant_ids, 1, 1, 5)
                id == db.next_event_id
            IN  IF DenotesPlayers(db, participant_ids, 1)
                THEN /\ r.error = "none"
                     /\ DOMAIN r.db.events = DOMAIN db.events \cup {id}
                     /\ Cardinality(Range(r.db.events[id].participants)) = 4
                     /\ Len(r.db.events[id].participants) = 4
                     /\ r.db.events[id].status = "DRAFT"
                     /\ r.db.games[id] = <<>>
                ELSE r.error = "BadRequest" /\ r.db = db

(***************************************************************************)
(* Specification SpecRatings: the rating engines as pure functions.  A     *)
(* batch of three games over six players is drawn in the initial state,    *)
(* each game won by either team, tied or unscored; calculate_deltas is run *)
(* on the batch, then on the batch with its unscored games left out.       *)
(***************************************************************************)

\* the ratings of players 1..6
RatingPopulations ==
    { <<100000, 110000, 90000, 100000, 120000, 80000>>,
      <<100000, 100000, 100000, 100000, 100000, 100000>>,
      <<95000, 130000, 70000, 101000, 88000, 142000>>,
      <<100000, 100000, 40000, 100000, 160000, 100000>> }

\* result and scores of a game
Outcomes ==
    { <<"TEAM1_WIN", 11, 5>>, <<"TEAM2_WIN", 5, 11>>, <<"TIE", 7, 7>>,
      <<"TIE", None, None>>, <<"UNSET", None, None>> }

\* the teams of the three games: players 5 and 6 play the third game only
BatchTeams == << <<1, 2, 3, 4>>, <<1, 3, 2, 4>>, <<3, 4, 5, 6>> >>

RatedGame(ratings, ids, outcome) ==
    [team1 |-> <<[player_id |-> ids[1], rating |-> ratings[ids[1]]],
                 [player_id |-> ids[2], rating |-> ratings[ids[2]]]>>,
     team2 |-> <<[player_id |-> ids[3], rating |-> ratings[ids[3]]],
                 [player_id |-> ids[4], rating |-> ratings[ids[4]]]>>,
     result |-> outcome[1], score_team1 |-> outcome[2], score_team2 |-> outcome[3]]

RatingInputs ==
    { [system |-> sys, ratings |-> ratings,
       games |-> [i \in 1..3 |-> RatedGame(ratings, BatchTeams[i], outcomes[i])]] :
         sys \in RatingSystems, ratings \in RatingPopulations,
         outcomes \in [1..3 -> Outcomes] }

\* the batch without its unscored games
ScoredOnly(games) == SelectSeq(games, IsScored)

\* the engine of the group, with its default constants, on a batch
EngineDeltas(system, games, ratings) ==
    calculate_deltas(system, 32, None, games, [pid \in 1..6 |-> ratings[pid]])

InitRatings ==
    /\ NoReads
    /\ gin \in RatingInputs
    /\ gres1 = <<>>
    /\ gres2 = <<>>
    /\ gpc = "ready"
    /\ rng = 7
    /\ db = InitDb("SERIOUS_ELO")
    /\ calls = <<>>

\* calculate_deltas(games, current_ratings)
CalculateDeltas ==
    /\ gpc = "ready"
    /\ gres1' = EngineDeltas(gin.system, gin.games, gin.ratings)
    /\ gpc' = "once"
    /\ UNCHANGED <<readvars, calls, gin, gres2, rng, db>>

\* calculate_deltas on the scored games of the batch
CalculateScoredOnly ==
    /\ gpc = "once"
    /\ gres2' = EngineDeltas(gin.system, ScoredOnly(gin.games), gin.ratings)
    /\ gpc' = "twice"
    /\ UNCHANGED <<readvars, calls, gin, gres1, rng, db>>

NextRatings == CalculateDeltas \/ CalculateScoredOnly

SpecRatings == InitRatings /\ [][NextRatings]_vars

(***************************************************************************)
(* Properties of the rating engines (checked under SpecRatings)            *)
(***************************************************************************)

RECURSIVE SumOfDeltas(_, _)
SumOfDeltas(res, S) ==
    IF S = {} THEN 0
    ELSE LET pid == CHOOSE x \in S : TRUE
         IN  res[pid].delta + SumOfDeltas(res, S \ {pid})

\* the Serious-ELO deltas of one game rated alone
SeriousOf(game) == EngineDeltas("SERIOUS_ELO", <<game>>, gin.ratings)

\* C25: Serious ELO is zero-sum per game: for every scored game both team-1
\* players receive the same delta D and both team-2 players receive -D, so
\* the four deltas sum to zero; and the deltas returned for a batch,
\* accumulated over its games, sum to zero.
C25_SeriousZeroSum ==
    (gin.system = "SERIOUS_ELO" /\ gpc # "ready") =>
        /\ \A i \in 1..Len(gin.games) :
              IsScored(gin.games[i]) =>
                 LET game == gin.games[i]
                     one == SeriousOf(game)
                     D == one[game.team1[1].player_id].delta
                 IN  /\ DOMAIN one = GamePlayerIds(game)
                     /\ one[game.team1[2].player_id].delta = D
                     /\ one[game.team2[1].player_id].delta = -D
                     /\ one[game.team2[2].player_id].delta = -D
                     /\ SumOfDeltas(one, DOMAIN one) = 0
        /\ SumOfDeltas(gres1, DOMAIN gres1) = 0

\* a Serious-ELO batch of three scored games, not all tied, in which every
\* player's rating has changed
C25_Witness ==
    /\ gin.system = "SERIOUS_ELO" /\ gpc = "once"
    /\ \A i \in 1..3 : IsScored(gin.games[i])
    /\ DOMAIN gres1 = 1..6
    /\ \A pid \in 1..6 : gres1[pid].delta # 0

\* the players who appear in a scored game of the batch
ScoredPlayers == UNION {GamePlayerIds(g) : g \in {gin.games[i] : i \in {j \in 1..3 : IsScored(gin.games[j])}}}

\* C26: every engine skips UNSET games: calculate_deltas on a batch returns
\* the same map as on the batch with its UNSET games removed; a player who
\* appears only in UNSET games has no entry; a batch of UNSET games only
\* yields the empty map.
C26_UnsetGamesSkipped ==
    gpc = "twice" =>
        /\ gres1 = gres2
        /\ DOMAIN gres1 = ScoredPlayers
        /\ (ScoredOnly(gin.games) = <<>> => DOMAIN gres1 = {})

\* the same statement for the Serious and Rac's engines only
UnsetSkippedBySeriousAndRacs ==
    gin.system \in {"SERIOUS_ELO", "RACS_ELO"} => C26_UnsetGamesSkipped

\* C27: under Rac's ELO a batch consisting only of TIE games changes no
\* rating: every returned delta is zero and rating_after = rating_before.
C27_RacsTieChangesNothing ==
    (/\ gin.system = "RACS_ELO" /\ gpc # "ready"
     /\ \A i \in 1..3 : gin.games[i].result = "TIE") =>
        \A pid \in DOMAIN gres1 :
            /\ gres1[pid].delta = 0
            /\ gres1[pid].rating_after = gres1[pid].rating_before

\* a Rac's batch of three tied games, one of them without scores, has been
\* rated and every player has an entry
C27_Witness ==
    /\ gin.system = "RACS_ELO" /\ gpc = "once"
    /\ \A i \in 1..3 : gin.games[i].result = "TIE"
    /\ \E i \in 1..3 : gin.games[i].score_team1 = None
    /\ DOMAIN gres1 = 1..6
    /\ \E pid \in 1..6 : gres1[pid].rating_before # 100000

\* the scored games of the batch a player takes part in
GamesOf(pid) ==
    {i \in 1..3 : IsScored(gin.games[i]) /\ pid \in GamePlayerIds(gin.games[i])}

\* the Serious-ELO base delta of a player in one game of the batch
BaseDelta(pid, i) == SeriousOf(gin.games[i])[pid].delta

\* what a player gains (sign = 1) or loses (sign = -1) over the games S
\* under Serious ELO
RECURSIVE SumBase(_, _, _)
SumBase(pid, S, sign) ==
    IF S = {} THEN 0
    ELSE LET i == CHOOSE x \in S : TRUE
         IN  (IF BaseDelta(pid, i) * sign > 0 THEN BaseDelta(pid, i) ELSE 0)
             + SumBase(pid, S \ {i}, sign)

\* twice the median rating of the players of the batch
BatchMedian ==
    MedianRating([pid \in 1..6 |-> gin.ratings[pid]],
                 UNION {GamePlayerIds(gin.games[i]) : i \in 1..3})

\* C28: Catch-Up ELO adjusts the Serious-ELO base delta D of a game per
\* player by position against the batch median, keeping its sign: a gain
\* below the median becomes between D and 1.5*D, a gain above the median
\* between 0.7*D and D, a loss above the median between |D| and 1.2*|D|,
\* a loss at or below the median and any delta of a player exactly at the
\* median stay D; with all players at one rating Catch-Up equals Serious
\* ELO.  Stated on the delta returned for the batch, which is the sum of
\* the adjusted deltas of the player's games; deltas are whole hundredths
\* of a rating point, so a reduced gain may fall short of 0.7*D by less
\* than one hundredth per game.
C28_CatchUpAdjustsWithinBounds ==
    (gin.system = "CATCH_UP" /\ gpc # "ready") =>
        /\ \A pid \in DOMAIN gres1 :
              LET delta == gres1[pid].delta
                  gain == SumBase(pid, GamesOf(pid), 1)
                  loss == SumBase(pid, GamesOf(pid), -1)
                  gains == Cardinality({i \in GamesOf(pid) : BaseDelta(pid, i) > 0})
                  rating == 2 * gin.ratings[pid]
              IN  /\ rating < BatchMedian =>
                        /\ gain + loss <= delta
                        /\ 2 * delta <= 3 * gain + 2 * loss
                  /\ rating > BatchMedian =>
                        /\ 10 * (delta + gains) >= 7 * gain + 12 * loss
                        /\ delta <= gain + loss
                  /\ rating = BatchMedian => delta = gain + loss
                  /\ gain = 0 => delta <= 0
                  /\ loss = 0 => delta >= 0
                  /\ (gain = 0 /\ rating <= BatchMedian) => delta = loss
                  /\ (gain + loss # 0 /\ Cardinality(GamesOf(pid)) = 1) => delta # 0
        /\ (\A pid \in 1..6 : gin.ratings[pid] = gin.ratings[1]) =>
              LET serious == EngineDeltas("SERIOUS_ELO", gin.games, gin.ratings)
              IN  \A pid \in DOMAIN serious : gres1[pid] = serious[pid]

\* a Catch-Up batch has been rated in which a player far below the median
\* gained one and a half times the base delta, a player far above it lost
\* more than the base delta, and a player at the median got the base delta
C28_Witness ==
    /\ gin.system = "CATCH_UP" /\ gpc = "once"
    /\ gin.ratings[3] = 40000 /\ gin.ratings[5] = 160000
    /\ GamesOf(3) = {3} /\ BaseDelta(3, 3) > 0
    /\ 2 * gres1[3].delta = 3 * BaseDelta(3, 3)
    /\ gres1[5].delta < BaseDelta(5, 3)
    /\ gres1[4].delta = BaseDelta(4, 3) /\ gres1[4].delta # 0

(***************************************************************************)
(* Specification SpecRankings: the rankings endpoint and its cache, beside *)
(* the requests that change ratings.  The event of SpecScores is scored,   *)
(* completed and recalculated while users read the rankings and time       *)
(* passes.                                                                 *)
(***************************************************************************)

\* the users who call the endpoint: the owner of group 1, the account of
\* its player 1, and somebody else
Users == {"owner", "member", "stranger"}

\* group 1 exists, group 2 does not
GroupIds == {1, 2}

\* groups.owner_user_id
owner_user_id(group_id) == "owner"

\* players.user_id of the players of the group; only player 1 has an account
PlayerUserId(pid) == IF pid = 1 THEN "member" ELSE "null"

\* GroupPlayersRepository.is_member
is_member(d, user_id, group_id) ==
    \E pid \in DOMAIN d.group_players : PlayerUserId(pid) = user_id

\* variant: everybody is let in
verify_group_membership_mut(d, user_id, group_id) == "ok"

\* verify_group_membership: the error it raises, or "ok"
verify_group_membership(d, user_id, group_id) ==
    IF group_id # 1 THEN "NotFoundError"
    ELSE IF owner_user_id(group_id) # user_id /\ ~is_member(d, user_id, group_id)
      THEN "ForbiddenError"
    ELSE "ok"

\* TTLCache(default_ttl=30)
default_ttl == 30

\* TTLCache.get(key): the value, or None for a missing or expired entry,
\* which is removed; found tells the two apart ("if cached:")
TTLCache_get(cache, key, t) ==
    IF key \in DOMAIN cache
    THEN IF t < cache[key].expires
         THEN [found |-> TRUE, data |-> cache[key].data, cache |-> cache]
         ELSE [found |-> FALSE, data |-> None,
               cache |-> [k \in DOMAIN cache \ {key} |-> cache[k]]]
    ELSE [found |-> FALSE, data |-> None, cache |-> cache]

\* TTLCache.set(key, value)
TTLCache_set(cache, key, value, t) ==
    [k \in DOMAIN cache \cup {key} |->
        IF k = key THEN [data |-> value, expires |-> t + default_ttl] ELSE cache[k]]

\* "async def get_rankings(self, user_id: str, group_id: UUID)": the
\* parameters RankingService.get_rankings accepts
RankingService_get_rankings_parameters == {"user_id", "group_id"}

\* RankingService.get_rankings past its authorization: the players of the
\* group with their ratings and statistics
RankingService_get_rankings(d, group_id) ==
    [pid \in DOMAIN d.group_players |->
        [rating |-> d.group_players[pid].rating,
         games_played |-> d.group_players[pid].games_played,
         wins |-> d.group_players[pid].wins,
         losses |-> d.group_players[pid].losses,
         ties |-> d.group_players[pid].ties]]

\* GET /groups/{group_id}/rankings: the response, the cache afterwards and
\* the operations performed on the cache
get_rankings(d, cache, t, user_id, group_id) ==
    LET verified == verify_group_membership(d, user_id, group_id)
        cache_key == <<"rankings", group_id>>
        cached == TTLCache_get(cache, cache_key, t)
        response_data == RankingService_get_rankings(d, group_id)
    IN  IF verified # "ok"
        THEN [status |-> verified, rankings |-> <<>>, cache |-> cache, cache_ops |-> <<>>]
        ELSE IF cached.found
          THEN [status |-> "ok", rankings |-> cached.data, cache |-> cached.cache,
                cache_ops |-> <<"get">>]
        ELSE IF "skip_auth" \notin RankingService_get_rankings_parameters
          THEN [status |-> "TypeError", rankings |-> <<>>, cache |-> cached.cache,
                cache_ops |-> <<"get">>]
        ELSE [status |-> "ok", rankings |-> response_data,
              cache |-> TTLCache_set(cached.cache, cache_key, response_data, t),
              cache_ops |-> <<"get", "set">>]

\* the clock advances in steps of TickSeconds up to MaxNow
TickSeconds == 20
MaxNow == 40

InitRankings == InitScores

\* GET /groups/{id}/rankings
GetRankings ==
    /\ \E user_id \in Users, group_id \in GroupIds :
          LET r == get_rankings(db, rankings_cache, now, user_id, group_id)
          IN  /\ rankings_cache' = r.cache
              /\ last_read' = [user_id |-> user_id, group_id |-> group_id,
                               status |-> r.status, rankings |-> r.rankings,
                               cache_ops |-> r.cache_ops]
    /\ UNCHANGED <<calls, gin, gres1, gres2, gpc, rng, db, now>>

\* time passes
Tick ==
    /\ now < MaxNow
    /\ now' = now + TickSeconds
    /\ UNCHANGED <<calls, gin, gres1, gres2, gpc, rng, db, rankings_cache, last_read>>

NextRankings ==
    ScoreGame \/ CompleteScored \/ RecalculateRatings \/ GetRankings \/ Tick

SpecRankings == InitRankings /\ [][NextRankings]_vars

(***************************************************************************)
(* Properties of the rankings endpoint (checked under SpecRankings)        *)
(***************************************************************************)

\* a request has changed the ratings or statistics of the group
RatingsWritten == db.group_players # InitDb("SERIOUS_ELO").group_players

\* this step serves a rankings request
ReadServed == last_read' # last_read

\* the owner of group 1 and the accounts of its players
Authorized(user_id, group_id) == group_id = 1 /\ user_id \in {"owner", "member"}

\* C29: the rankings cache never serves pre-write data after a write: once
\* complete, recalculate or a score edit on a completed event has changed
\* ratings of the group, the next rankings read of the group (by a user
\* allowed to read it) returns the ratings as written.
C29_ReadAfterWriteIsFresh ==
    [][(/\ ReadServed
        /\ Authorized(last_read'.user_id, last_read'.group_id)
        /\ RatingsWritten) =>
            /\ last_read'.status = "ok"
            /\ last_read'.rankings = RankingService_get_rankings(db, 1)]_vars

\* what the cache of group 1 may hold: nothing, a live entry, an expired one
CacheContents ==
    {EmptyCache} \cup
    {TTLCache_set(EmptyCache, <<"rankings", 1>>, RankingService_get_rankings(db, 1), t) :
        t \in {now, now - default_ttl}}

\* C30: authorization precedes every cache lookup on the rankings read
\* path: a user who is neither the owner nor a member of the group never
\* receives rankings data, whether or not an entry for the group is
\* cached, and the cache is neither read nor written for such a request.
C30_AuthorizationBeforeCache ==
    /\ [][(ReadServed /\ ~Authorized(last_read'.user_id, last_read'.group_id)) =>
            /\ last_read'.status \in {"ForbiddenError", "NotFoundError"}
            /\ last_read'.rankings = <<>>
            /\ last_read'.cache_ops = <<>>
            /\ rankings_cache' = rankings_cache]_vars
    /\ [](\A cache \in CacheContents, user_id \in Users, group_id \in GroupIds :
            ~Authorized(user_id, group_id) =>
                LET r == get_rankings(db, cache, now, user_id, group_id)
                IN  /\ r.status \in {"ForbiddenError", "NotFoundError"}
                    /\ r.rankings = <<>>
                    /\ r.cache_ops = <<>>
                    /\ r.cache = cache)

\* somebody who is neither owner nor member asked for the rankings of
\* group 1 after its event was completed, and was refused
C30_Witness ==
    /\ last_read.user_id = "stranger" /\ last_read.group_id = 1
    /\ last_read.status = "ForbiddenError"
    /\ RatingsWritten
    /\ db.events[1].status = "COMPLETED"

(***************************************************************************)
(* Properties of the relax loop (checked under SpecGen)                    *)
(***************************************************************************)

\* the three hard-constraint toggles are off: the rating balance is the only
\* filter a match has to pass
TogglesOff ==
    /\ ~gin.config.no_repeat_teammate_in_event
    /\ ~gin.config.no_repeat_teammate_from_previous_event
    /\ ~gin.config.no_repeat_opponent_in_event

\* C31: rating-bound failures are relaxed, not reported as hard failures:
\* with the three toggles off (so that too few candidates surviving the
\* rating-balance filter is the only possible cause of a round that cannot
\* be filled) and auto_relax_elo_diff on, the generator keeps widening
\* elo_diff_used by auto_relax_step while elo_diff_used + auto_relax_step <=
\* auto_relax_max_elo_diff: a failure is returned only once the maximum is
\* exceeded.
C31_RatingBoundFailuresRelaxed ==
    (TogglesOff /\ gin.config.auto_relax_elo_diff) =>
        \A res \in RanResults :
            (~res.raised /\ ~res.success) =>
                /\ res.error_message = "max_elo_diff_exceeded"
                /\ res.metadata.elo_diff_used > gin.config.auto_relax_max_elo_diff

(***************************************************************************)
(* Specification SpecRelax: generate() pass by pass.  Each step is one     *)
(* pass of its while-loop; gres1 holds the locals of the loop, gres2 the   *)
(* result once generate() has returned.  The configurations are those the  *)
(* ConstraintConfig dataclass accepts, which validates nothing.            *)
(***************************************************************************)

\* relax_iterations and attempts are counted up to MaxIterations; a loop
\* that goes on beyond goes on with the counters held
MaxIterations == 12
Held(n) == IF n > MaxIterations THEN MaxIterations ELSE n

\* the populations of Cases4, and one whose teams are level, tried at a
\* tolerance of 0.3
RelaxCases ==
    Cases4 \cup {[players |-> Players4(100000, 100000, 95000, 95000), elo_diff |-> 300]}

RelaxInputs ==
    { [players |-> c.players, courts |-> 1, rounds |-> r,
       config |-> Config(t, c.elo_diff, relax, step, max),
       previous_teammate_pairs |-> pv, seed |-> 1] :
         c \in RelaxCases, r \in {1, 2}, t \in {AllOn, AllOff}, relax \in BOOLEAN,
         step \in {0, 50, 200}, max \in {250, 500},
         pv \in { {}, {{1, 2}, {1, 3}, {1, 4}} } }

\* "attempts = 0; relax_iterations = 0; current_elo_diff = self.config.elo_diff"
InitRelax ==
    /\ NoReads
    /\ gin \in RelaxInputs
    /\ gres1 = [relax_iterations |-> 0, current_elo_diff |-> gin.config.elo_diff,
                attempts |-> 0]
    /\ gres2 = NoResult
    /\ gpc = "looping"
    /\ rng = 7
    /\ db = InitDb("SERIOUS_ELO")
    /\ calls = <<>>

\* one pass of "while True:"
RelaxIteration ==
    /\ gpc = "looping"
    /\ \E s \in {GenerateStep(gin.players, gin.courts, gin.rounds, gin.config,
                              gin.previous_teammate_pairs, gin.seed,
                              gres1.relax_iterations, gres1.current_elo_diff,
                              gres1.attempts, rng)} :
          IF s.done
          THEN /\ gres2' = s.result
               /\ rng' = s.result.rng
               /\ gpc' = "returned"
               /\ UNCHANGED gres1
          ELSE /\ gres1' = [relax_iterations |-> Held(s.relax_iterations),
                            current_elo_diff |-> s.current_elo_diff,
                            attempts |-> Held(s.attempts)]
               /\ rng' = s.rng
               /\ UNCHANGED <<gres2, gpc>>
    /\ UNCHANGED <<readvars, calls, gin, db>>

NextRelax == RelaxIteration

SpecRelax == InitRelax /\ [][NextRelax]_vars

(***************************************************************************)
(* Properties of the relax loop (checked under SpecRelax)                  *)
(***************************************************************************)

\* the room left for relaxation
RelaxRoom == gin.config.auto_relax_max_elo_diff - gres1.current_elo_diff

\* C32: generate() always terminates: for every input the constructor
\* accepts, with any ConstraintConfig (any auto_relax_step and
\* auto_relax_max_elo_diff), the relax loop makes a bounded number of
\* passes, at most about (auto_relax_max_elo_diff - elo_diff) /
\* auto_relax_step + 1, and a result is returned.  Stated as the argument
\* that bounds the loop: a pass that does not return leaves strictly less
\* room for relaxation, and the room is never negative when a pass starts
\* again.
C32_GenerateTerminates ==
    [][(gpc = "looping" /\ gpc' = "looping") =>
          /\ RelaxRoom' < RelaxRoom
          /\ RelaxRoom' >= 0]_vars

\* C33: relaxation is bounded by auto_relax_max_elo_diff: with
\* auto_relax_elo_diff enabled, no generation attempt is run and no schedule
\* is returned with a tolerance greater than auto_relax_max_elo_diff (every
\* successful result has elo_diff_used <= auto_relax_max_elo_diff), and
\* when the next widening would exceed it the generator returns the
\* rating-infeasible failure.
C33_RelaxationBounded ==
    (gin.config.auto_relax_elo_diff /\ gpc = "returned") =>
        /\ gres1.current_elo_diff <= gin.config.auto_relax_max_elo_diff
        /\ gres2.success =>
              gres2.metadata.elo_diff_used <= gin.config.auto_relax_max_elo_diff
        /\ gres2.error_message = "max_elo_diff_exceeded" =>
              /\ ~gres2.success /\ gres2.games = <<>>
              /\ gres2.metadata.elo_diff_used > gin.config.auto_relax_max_elo_diff


\* what the metadata of the returned result records of the call, but for the
\* relation between the tolerance used and the number of relaxations
MetadataRecordsCall ==
    LET m == gres2.metadata
    IN  /\ m.seed_used = gin.seed
        /\ m.elo_diff_configured = gin.config.elo_diff
        /\ m.constraint_toggles.no_repeat_teammate_in_event
              = gin.config.no_repeat_teammate_in_event
        /\ m.constraint_toggles.no_repeat_teammate_from_previous_event
              = gin.config.no_repeat_teammate_from_previous_event
        /\ m.constraint_toggles.no_repeat_opponent_in_event
              = gin.config.no_repeat_opponent_in_event
        /\ m.elo_diff_used
              = m.elo_diff_configured + m.relax_iterations * gin.config.auto_relax_step
        /\ m.elo_diff_used >= m.elo_diff_configured

EventPlayers(d, e) == UNION {RowPlayers(d.games[e][i]) : i \in 1..Len(d.games[e])}

\* C35: after recalculate, a COMPLETED event has a rating-update record for
\* a player of its games if and only if the player's rating at the end of
\* the event's last round differs from the rating the player had in the
\* replay when the event started; the record is the only one of the pair and
\* carries these two ratings and their difference as delta; and no record
\* belongs to an event that is not COMPLETED.
C35_RecordIffRatingChanged ==
    gpc = "off" =>
    \A d2 \in {recalculate_ratings(db).db} :
        /\ \A e \in CompletedEvents(db) : \A pid \in EventPlayers(db, e) :
              LET before == RatingsAfterRounds(db, RoundsBeforeEvent(db, e))[pid]
                  after == RatingsAfterRounds(db, RoundsThroughEvent(db, e))[pid]
              IN  /\ (RecordsOf(d2, e, pid) # {}) <=> (after # before)
                  /\ \A u \in RecordsOf(d2, e, pid) :
                        /\ d2.rating_updates[u] = 1
                        /\ u.rating_before = before
                        /\ u.rating_after = after
                        /\ u.delta = u.rating_after - u.rating_before
        /\ \A u \in DOMAIN d2.rating_updates : u.event_id \in CompletedEvents(db)

\* a replayed group with a COMPLETED event whose players have a record and
\* a COMPLETED event with a scored game that changed no rating and left no
\* record
C35_Witness ==
    /\ gpc = "off"
    /\ recalculate_ratings(db).db = db
    /\ \E e \in CompletedEvents(db) :
          \E pid \in EventPlayers(db, e) : RecordsOf(db, e, pid) # {}
    /\ \E e \in CompletedEvents(db) :
          /\ \E i \in 1..Len(db.games[e]) : db.games[e][i].result # "UNSET"
          /\ \E pid \in EventPlayers(db, e) : RecordsOf(db, e, pid) = {}


(***************************************************************************)
(* Properties of a replay whose statements may fail (checked under         *)
(* SpecRequests)                                                           *)
(***************************************************************************)

\* call c is inside the try block of an event and this step is its except
\* clause: the loop goes on with the next event and nothing is written
FailsInEvent(c) ==
    /\ calls[c].op = "recalculate"
    /\ calls[c].pc \in {"event", "snapshot", "records"}
    /\ calls'[c] = NextEvent([calls[c] EXCEPT !.events = Tail(@)])
    /\ db' = db

\* the in-memory ratings of the call as its current event started
EventStartRatings(locals) ==
    IF locals.pc = "event" THEN locals.current_ratings ELSE locals.before

\* the scored games of the current event whose round is already counted in
\* current_ratings and player_stats
AppliedGames(locals) ==
    SelectSeq(locals.games,
              LAMBDA g : g.result # "UNSET" /\ g.round_index \notin locals.rounds)

\* C36: when a statement of the replay of one COMPLETED event raises
\* (loading the games, persisting a snapshot, writing the records), the
\* event is skipped: the ratings the replay goes on with are those the event
\* started from, no game of the event is counted in the statistics, and the
\* loop goes on with the next event or, after the last one, with the final
\* write-back.
C36_FailedEventSkipped ==
    [][\A c \in CallIds :
          FailsInEvent(c) =>
              /\ calls'[c].pc \in {"event", "final"}
              /\ calls'[c].current_ratings = EventStartRatings(calls[c])
              /\ \A pid \in DOMAIN db.group_players :
                    CountStats(AppliedGames(calls[c]), pid) = ZeroStats]_vars


(***************************************************************************)
(* Specification SpecRegen: one event that is generated, swapped, scored   *)
(* and generated again while the organizer changes the group's settings.   *)
(* The event is never completed, so the ratings stay as they are.          *)
(***************************************************************************)

\* GroupService.update_settings: the keys of the request that were set and
\* are not null replace the stored ones.  updates maps a key to
\* [null, value].
update_settings(d, updates) ==
    Done([d EXCEPT !.settings =
            [key \in DOMAIN @ |->
                IF key \in DOMAIN updates /\ ~updates[key].null
                THEN updates[key].value ELSE @[key]]])

\* the settings requests explored: a strict tolerance without relaxation,
\* the default tolerance with relaxation, and a request whose only field is
\* null
SettingsUpdates ==
    { [eloDiff |-> [null |-> FALSE, value |-> 10],
       autoRelaxEloDiff |-> [null |-> FALSE, value |-> FALSE]],
      [eloDiff |-> [null |-> FALSE, value |-> 250],
       autoRelaxEloDiff |-> [null |-> FALSE, value |-> TRUE]],
      [eloDiff |-> [null |-> TRUE, value |-> None]] }

\* the event of SpecRegen, event 1: players 1, 2, 4 and 5 (one of them 100
\* points above the others), one court, two rounds
RegenDb ==
    create_event(InitDb("SERIOUS_ELO"), <<1, 2, 4, 5>>, 1, 2, 1).db

\* the swaps requested: <<round_index, player1_id, player2_id>>
RegenSwaps == {<<0, 1, 2>>, <<0, 2, 5>>, <<1, 1, 2>>}

InitRegen ==
    /\ NoReads
    /\ gin = <<>>
    /\ gres1 = NoResult
    /\ gres2 = NoResult
    /\ gpc = "off"
    /\ rng = 7
    /\ db = RegenDb
    /\ calls = <<>>

\* POST /events/{id}/generate
RegenGenerate ==
    /\ \E sd \in {NoSeed} \cup ClockSeeds :
          \E r \in {generate_schedule(db, 1, sd # NoSeed, sd, rng)} :
              db' = r.db /\ rng' = r.rng
    /\ UNCHANGED <<readvars, calls, gin, gres1, gres2, gpc>>

\* POST /events/{id}/swap
RegenSwap ==
    /\ \E req \in RegenSwaps :
          db' = swap_players(db, 1, req[1], req[2], req[3]).db
    /\ UNCHANGED <<readvars, calls, gin, gres1, gres2, gpc, rng>>

\* PATCH /games/{id}/score
RegenScore ==
    /\ \E pos \in {1, 2} : \E sc \in Scores(pos) :
          db' = update_score(db, <<1, pos>>, sc[1], sc[2]).db
    /\ UNCHANGED <<readvars, calls, gin, gres1, gres2, gpc, rng>>

\* PATCH /groups/{id}/settings
RegenSettings ==
    /\ \E updates \in SettingsUpdates : db' = update_settings(db, updates).db
    /\ UNCHANGED <<readvars, calls, gin, gres1, gres2, gpc, rng>>

NextRegen == RegenGenerate \/ RegenSwap \/ RegenScore \/ RegenSettings

SpecRegen == InitRegen /\ [][NextRegen]_vars

(***************************************************************************)
(* Properties of generate and swap on a stored event (checked under        *)
(* SpecRegen)                                                              *)
(***************************************************************************)

\* the ways POST /events/{id}/generate can be called on event e
GenerateCalls(e) ==
    {generate_schedule(db, e, sd # NoSeed, sd, rng) : sd \in {NoSeed} \cup ClockSeeds}

\* the games of event e in d are a fresh schedule: one game per round and
\* court, none scored, none swapped
FreshSchedule(d, e) ==
    /\ Len(d.games[e]) = d.events[e].rounds * d.events[e].courts
    /\ \A r \in 0..(d.events[e].rounds - 1), c \in 0..(d.events[e].courts - 1) :
          Cardinality({i \in 1..Len(d.games[e]) :
                          d.games[e][i].round_index = r /\ d.games[e][i].court_index = c}) = 1
    /\ \A i \in 1..Len(d.games[e]) :
          /\ d.games[e][i].result = "UNSET"
          /\ d.games[e][i].score_team1 = None /\ d.games[e][i].score_team2 = None
          /\ ~d.games[e][i].swapped

\* C37: generate on an event is all-or-nothing: when it succeeds the event's
\* games are exactly the R*C new games, all UNSET (the games stored before,
\* with their scores and swap flags, are gone), the status is GENERATED and
\* the metadata is that of the new run; when the generator fails
\* (MatchmakingError) the database is left as it was.
C37_GenerateAllOrNothing ==
    gpc = "off" =>
    \A e \in DOMAIN db.events : \A r \in GenerateCalls(e) :
        /\ r.error = "none" =>
              /\ FreshSchedule(r.db, e)
              /\ r.db.events[e].status = "GENERATED"
              /\ Len(r.db.events[e].generation_meta) = 1
              /\ r.db.events[e].generation_meta[1].attempts >= 1
              /\ r.db.events[e].generation_meta[1].elo_diff_configured = db.settings.eloDiff
              /\ \A o \in DOMAIN db.events \ {e} :
                    r.db.games[o] = db.games[o] /\ r.db.events[o] = db.events[o]
        /\ r.error = "MatchmakingError" => r.db = db

\* an event IN_PROGRESS whose stored games carry a score and a swap, on which
\* generate succeeds
C37_Witness ==
    /\ gpc = "off"
    /\ \E e \in DOMAIN db.events :
          /\ db.events[e].status = "IN_PROGRESS"
          /\ \E i \in 1..Len(db.games[e]) : db.games[e][i].result # "UNSET"
          /\ \E i \in 1..Len(db.games[e]) : db.games[e][i].swapped
          /\ \E r \in GenerateCalls(e) : r.error = "none" /\ r.db # db

\* an event whose stored games carry a score and a swap, on which the
\* generator fails
C37_WitnessFailure ==
    /\ gpc = "off"
    /\ \E e \in DOMAIN db.events :
          /\ \E i \in 1..Len(db.games[e]) : db.games[e][i].result # "UNSET"
          /\ \E i \in 1..Len(db.games[e]) : db.games[e][i].swapped
          /\ \E r \in GenerateCalls(e) : r.error = "MatchmakingError"


\* game i of event e carries, as team ratings, those of the players stored
\* in its positions (the sum stands for twice the mean)
SnapshotOfStoredTeams(d, e, i) ==
    LET row == d.games[e][i]
    IN  /\ row.team1_elo = d.group_players[row.team1_p1].rating
                           + d.group_players[row.team1_p2].rating
        /\ row.team2_elo = d.group_players[row.team2_p1].rating
                           + d.group_players[row.team2_p2].rating

\* C39: after any sequence of generate and swap on an event that is not
\* completed (the ratings being those of the generation), every game's
\* team1_elo/team2_elo is the mean rating of the two players now stored in
\* that team's positions: a swap updates the snapshots of the games it
\* touches.
C39_SnapshotsFollowSwaps ==
    gpc = "off" =>
    \A e \in DOMAIN db.events :
        db.events[e].status # "COMPLETED" =>
            \A i \in 1..Len(db.games[e]) : SnapshotOfStoredTeams(db, e, i)


(***************************************************************************)
(* Properties of the cumulative statistics (checked under SpecEvents)      *)
(***************************************************************************)

\* player pid is on the winning team of game g = <<event, position>> of d
WonGame(d, pid, g) ==
    LET row == d.games[g[1]][g[2]]
    IN  \/ row.result = "TEAM1_WIN" /\ pid \in {row.team1_p1, row.team1_p2}
        \/ row.result = "TEAM2_WIN" /\ pid \in {row.team2_p1, row.team2_p2}

\* the stored statistics of pid are the counts over the scored games of the
\* COMPLETED events the player appears in
StatsMatchGames(d, pid) ==
    LET played == PlayedGames(d, pid)
        tied == {g \in played : d.games[g[1]][g[2]].result = "TIE"}
        won == {g \in played : WonGame(d, pid, g)}
    IN  /\ d.group_players[pid].games_played = Cardinality(played)
        /\ d.group_players[pid].wins = Cardinality(won)
        /\ d.group_players[pid].ties = Cardinality(tied)
        /\ d.group_players[pid].losses = Cardinality(played \ (won \cup tied))
        /\ d.group_players[pid].games_played =
              d.group_players[pid].wins + d.group_players[pid].losses
              + d.group_players[pid].ties

\* C38: after any sequence of lifecycle operations served one after the
\* other, every player's games_played, wins, losses and ties are the counts
\* over the scored games of the COMPLETED events the player appears in, so
\* games_played = wins + losses + ties; completing an event and replaying
\* the group give the same counts.
C38_StatsMatchScoredGames ==
    gpc = "off" =>
        /\ \A pid \in DOMAIN db.group_players : StatsMatchGames(db, pid)
        /\ \A d2 \in {recalculate_ratings(db).db} :
              \A pid \in DOMAIN db.group_players :
                  /\ d2.group_players[pid].games_played = db.group_players[pid].games_played
                  /\ d2.group_players[pid].wins = db.group_players[pid].wins
                  /\ d2.group_players[pid].losses = db.group_players[pid].losses
                  /\ d2.group_players[pid].ties = db.group_players[pid].ties

\* two COMPLETED events, one of them with a game left without a result, and
\* a player who has won a game and lost or tied another
C38_Witness ==
    /\ gpc = "off"
    /\ \E e1, e2 \in CompletedEvents(db) :
          /\ e1 # e2
          /\ \E i \in 1..Len(db.games[e1]) : db.games[e1][i].result = "UNSET"
    /\ \E pid \in DOMAIN db.group_players :
          /\ db.group_players[pid].games_played >= 2
          /\ db.group_players[pid].wins >= 1
          /\ db.group_players[pid].losses + db.group_players[pid].ties >= 1


(***************************************************************************)
(* Specification SpecJoin: a group without events.  Players are added with *)
(* any membership type and skill level the request schema accepts, and the *)
(* ratings are recalculated.                                               *)
(***************************************************************************)

MaxMembers == 2
MembershipTypes == {"PERMANENT", "SUB"}
SkillLevels == {"NONE", "ADVANCED", "INTERMEDIATE", "BEGINNER"}
\* the initialRating of the group: 1000, 1250 and 500 points
InitialRatings == {100000, 125000, 50000}

\* GroupPlayerService.add_player_to_group: the new row of group_players
add_player_to_group(d, membership_type, skill_level) ==
    Done([d EXCEPT !.group_players =
            Append(@, NewGroupPlayer(d.settings, membership_type, skill_level))])

InitJoin ==
    /\ NoReads
    /\ gin = <<>>
    /\ gres1 = NoResult
    /\ gres2 = NoResult
    /\ gpc = "off"
    /\ rng = 7
    /\ db \in {[InitDb("SERIOUS_ELO") EXCEPT !.settings.initialRating = base,
                                             !.group_players = <<>>] :
               base \in InitialRatings}
    /\ calls = <<>>

\* POST /groups/{id}/players
AddPlayerToGroup ==
    /\ Len(db.group_players) < MaxMembers
    /\ \E membership_type \in MembershipTypes, skill_level \in SkillLevels :
          db' = add_player_to_group(db, membership_type, skill_level).db
    /\ UNCHANGED <<readvars, calls, gin, gres1, gres2, gpc, rng>>

\* POST /groups/{id}/recalculate-ratings
JoinRecalculate ==
    /\ db' = recalculate_ratings(db).db
    /\ UNCHANGED <<readvars, calls, gin, gres1, gres2, gpc, rng>>

NextJoin == AddPlayerToGroup \/ JoinRecalculate

SpecJoin == InitJoin /\ [][NextJoin]_vars

\* C40: the rating the replay resets a player to is the rating the player
\* received when added to the group, for every membership type, skill level
\* and initialRating; so a recalculate on a group without completed events
\* changes no rating.
C40_ResetEqualsJoinRating ==
    /\ \A pid \in DOMAIN db.group_players :
          ReplayInitialRating(db.settings, db.group_players[pid].skill_level)
              = JoinRating(db.settings, db.group_players[pid].membership_type,
                           db.group_players[pid].skill_level)
    /\ [pid \in DOMAIN db.group_players |-> recalculate_ratings(db).db.group_players[pid].rating]
          = [pid \in DOMAIN db.group_players |-> db.group_players[pid].rating]

====
